---- MODULE Spec2Model ----
(***************************************************************************)
(* A model of the InfinityDB client codec and ItemSpace.                   *)
(*                                                                         *)
(* JavaScript side (src/src/javascript/infinitydb_access.js): the twelve   *)
(* Component kinds, their comparison, idb.key / idb.unQuote, idb.Item and  *)
(* the idb.OrderedMap / idb.ItemSpace trie.                                *)
(* Java side (src/src/java/.../JsonParser.java, src/unnamed/part_002):     *)
(* the JsonElement writer, the JsonTokenizer and JsonParser.               *)
(*                                                                         *)
(* Text is a sequence of one-character strings.  JavaScript numbers are    *)
(* restricted to integers, Dates to midnight UTC of a day in January 1970  *)
(* (the value is the day number, getTime() / 86400000), the locale of      *)
(* localeCompare is the ICU root collation and the time zone is UTC.       *)
(***************************************************************************)
EXTENDS Integers, Sequences, FiniteSets, TLC

VARIABLES
    root,       \* ItemSpace.root: the trie of OrderedMap nodes
    itemCount,  \* ItemSpace.itemCount
    lastOp,     \* the last ItemSpace call: kind, item, how it ended
    pre,        \* root and itemCount as they were before the last call
    items,      \* the Items the client of the ItemSpace works with
    calls,      \* number of ItemSpace calls made so far
    arg1,       \* first input of the pure function under check
    arg2,       \* second input (comparisons), or the intermediate text
    result,     \* its result
    pc          \* which step of the pure-function pipeline was taken last

vars == <<root, itemCount, lastOp, pre, items, calls, arg1, arg2, result, pc>>
spaceVars == <<root, itemCount, lastOp, pre, items, calls>>
funVars == <<arg1, arg2, result, pc>>

(***************************************************************************)
(* Characters and strings                                                  *)
(***************************************************************************)
DigitSeq == <<"0", "1", "2", "3", "4", "5", "6", "7", "8", "9">>
LowerSeq == <<"a", "b", "c", "d", "e", "f", "g", "h", "i", "j", "k", "l", "m",
              "n", "o", "p", "q", "r", "s", "t", "u", "v", "w", "x", "y", "z">>
UpperSeq == <<"A", "B", "C", "D", "E", "F", "G", "H", "I", "J", "K", "L", "M",
              "N", "O", "P", "Q", "R", "S", "T", "U", "V", "W", "X", "Y", "Z">>
PunctSeq == <<" ", "_", "-", ",", ":", ".", "\"", "(", ")", "[", "]", "{", "}",
              "/", "\\", "+">>

Range(s) == {s[i] : i \in 1..Len(s)}
Digits == Range(DigitSeq)
LowerCase == Range(LowerSeq)
UpperCase == Range(UpperSeq)
AllChars == Range(PunctSeq) \cup Digits \cup LowerCase \cup UpperCase

IndexOf(s, c) == CHOOSE i \in 1..Len(s) : s[i] = c

SetMin(S) == CHOOSE m \in S : \A j \in S : m <= j

Sign(n) == IF n < 0 THEN -1 ELSE IF n > 0 THEN 1 ELSE 0

\* String.prototype.startsWith / endsWith / includes on character sequences
StartsWith(s, p) == Len(s) >= Len(p) /\ SubSeq(s, 1, Len(p)) = p
EndsWith(s, p) == Len(s) >= Len(p) /\ SubSeq(s, Len(s) - Len(p) + 1, Len(s)) = p
Includes(s, c) == \E i \in 1..Len(s) : s[i] = c

\* Lexicographic comparison of two sequences of integers: -1, 0 or 1.
LexCompare(x, y) ==
    LET n == IF Len(x) < Len(y) THEN Len(x) ELSE Len(y)
        D == {i \in 1..n : x[i] # y[i]}
    IN  IF D = {} THEN Sign(Len(x) - Len(y))
        ELSE LET k == SetMin(D) IN Sign(x[k] - y[k])

\* ICU root collation: punctuation < digits < letters at the primary level,
\* letters of different case differ only at the tertiary level (lower first).
PrimaryOrder == PunctSeq \o DigitSeq \o LowerSeq
PrimaryWeight ==
    [c \in AllChars |->
        IF c \in UpperCase THEN IndexOf(PrimaryOrder, LowerSeq[IndexOf(UpperSeq, c)])
        ELSE IndexOf(PrimaryOrder, c)]
TertiaryWeight == [c \in AllChars |-> IF c \in UpperCase THEN 1 ELSE 0]

\* the comparison of the collation elements of two strings
CollationCompare(s1, s2) ==
    LET p == LexCompare([i \in 1..Len(s1) |-> PrimaryWeight[s1[i]]],
                        [i \in 1..Len(s2) |-> PrimaryWeight[s2[i]]])
    IN  IF p # 0 THEN p
        ELSE LexCompare([i \in 1..Len(s1) |-> TertiaryWeight[s1[i]]],
                        [i \in 1..Len(s2) |-> TertiaryWeight[s2[i]]])

\* characters with no collation element: "SHY" is U+00AD SOFT HYPHEN, written
\* as one element of a string
Ignorable == {"SHY"}

\* String.prototype.localeCompare: ignorable characters take no part
localeCompare(s1, s2) ==
    CollationCompare(SelectSeq(s1, LAMBDA c : c \notin Ignorable),
                     SelectSeq(s2, LAMBDA c : c \notin Ignorable))

RECURSIVE NatToString(_)
NatToString(n) ==
    IF n < 10 THEN <<DigitSeq[n + 1]>>
    ELSE NatToString(n \div 10) \o <<DigitSeq[(n % 10) + 1]>>

\* Number.prototype.toString for an integer-valued number
NumberToString(n) == IF n < 0 THEN <<"-">> \o NatToString(-n) ELSE NatToString(n)

(***************************************************************************)
(* JavaScript values: raw primitives and the idb.Component wrappers        *)
(***************************************************************************)
JsString(s)  == [t |-> "string", v |-> s]
JsNumber(n)  == [t |-> "number", v |-> n]
JsBoolean(b) == [t |-> "boolean", v |-> b]
JsDate(d)    == [t |-> "JsDate", v |-> d]
JsNull       == [t |-> "null", v |-> 0]
TypeError    == [t |-> "TypeError", v |-> 0]

IdbClass(name)     == [t |-> "Class", v |-> name]
IdbAttribute(name) == [t |-> "Attribute", v |-> name]
IdbBooleanValue(b) == [t |-> "BooleanValue", v |-> b]
IdbFloat(n)        == [t |-> "Float", v |-> n]
IdbDouble(n)       == [t |-> "Double", v |-> n]
IdbLong(n)         == [t |-> "Long", v |-> n]
IdbDate(d)         == [t |-> "Date", v |-> d]
IdbBytes(b)        == [t |-> "Bytes", v |-> b]
IdbByteString(b)   == [t |-> "ByteString", v |-> b]
IdbChars(s)        == [t |-> "Chars", v |-> s]
IdbIndex(n)        == [t |-> "Index", v |-> n]

WrapperTypes == {"Class", "Attribute", "BooleanValue", "Float", "Double", "Long",
                 "Date", "Bytes", "ByteString", "Chars", "Index"}

\* o instanceof idb.Component
isInstanceOfComponent(o) == o.t \in WrapperTypes

isComponent(o) ==
    o.t \in {"number", "boolean", "string", "JsDate"} \/ isInstanceOfComponent(o)

TYPE_ORDER ==
    [CLASS |-> 1, ATTRIBUTE |-> 2, STRING |-> 3, BOOLEAN |-> 4, FLOAT |-> 5,
     DOUBLE |-> 6, LONG |-> 7, DATE |-> 8, BYTES |-> 9, BYTE_STRING |-> 10,
     CHARS |-> 11, INDEX |-> 12]

\* getTypeOrder() of each wrapper class
getTypeOrder(c) ==
    CASE c.t = "Class"        -> TYPE_ORDER.CLASS
      [] c.t = "Attribute"    -> TYPE_ORDER.ATTRIBUTE
      [] c.t = "BooleanValue" -> TYPE_ORDER.BOOLEAN
      [] c.t = "Float"        -> TYPE_ORDER.FLOAT
      [] c.t = "Double"       -> TYPE_ORDER.DOUBLE
      [] c.t = "Long"         -> TYPE_ORDER.LONG
      [] c.t = "Date"         -> TYPE_ORDER.DATE
      [] c.t = "Bytes"        -> TYPE_ORDER.BYTES
      [] c.t = "ByteString"   -> TYPE_ORDER.BYTE_STRING
      [] c.t = "Chars"        -> TYPE_ORDER.CHARS
      [] c.t = "Index"        -> TYPE_ORDER.INDEX

getTypeOrderForValue(value) ==
    IF isInstanceOfComponent(value) THEN getTypeOrder(value)
    ELSE CASE value.t = "string"  -> TYPE_ORDER.STRING
           [] value.t = "number"  -> TYPE_ORDER.DOUBLE
           [] value.t = "boolean" -> TYPE_ORDER.BOOLEAN
           [] value.t = "JsDate"  -> TYPE_ORDER.DATE

(***************************************************************************)
(* Token forms: toString() of the wrappers, idb.toToken, String(x)         *)
(***************************************************************************)
TwoDigits(n) == <<DigitSeq[(n \div 10) + 1], DigitSeq[(n % 10) + 1]>>

\* Date.prototype.toISOString for midnight UTC of day d of January 1970
toISOString(d) ==
    <<"1", "9", "7", "0", "-", "0", "1", "-">> \o TwoDigits(d + 1)
    \o <<"T", "0", "0", ":", "0", "0", ":", "0", "0", ".", "0", "0", "0", "Z">>

WeekdaySeq == << <<"T", "h", "u">>, <<"F", "r", "i">>, <<"S", "a", "t">>,
                 <<"S", "u", "n">>, <<"M", "o", "n">>, <<"T", "u", "e">>,
                 <<"W", "e", "d">> >>

\* Date.prototype.toString, what String(date) gives for a raw JS Date
DateToString(d) ==
    WeekdaySeq[(d % 7) + 1] \o <<" ", "J", "a", "n", " ">> \o TwoDigits(d + 1)
    \o <<" ", "1", "9", "7", "0", " ", "0", "0", ":", "0", "0", ":", "0", "0",
         " ", "G", "M", "T", "+", "0", "0", "0", "0">>

hexChars == <<"0", "1", "2", "3", "4", "5", "6", "7", "8", "9",
              "A", "B", "C", "D", "E", "F">>

RECURSIVE toHexWithUnderscores(_)
toHexWithUnderscores(bytes) ==
    IF Len(bytes) = 0 THEN <<>>
    ELSE LET b == bytes[Len(bytes)]
             hexValue == <<hexChars[(b \div 16) + 1], hexChars[(b % 16) + 1]>>
             front == toHexWithUnderscores(SubSeq(bytes, 1, Len(bytes) - 1))
         IN  IF Len(bytes) = 1 THEN hexValue ELSE front \o <<"_">> \o hexValue

RECURSIVE JsonEscape(_)
JsonEscape(s) ==
    IF Len(s) = 0 THEN <<>>
    ELSE (IF s[1] \in {"\"", "\\"} THEN <<"\\", s[1]>> ELSE <<s[1]>>)
         \o JsonEscape(Tail(s))

\* JSON.stringify of a string
JsonStringify(s) == <<"\"">> \o JsonEscape(s) \o <<"\"">>

BooleanToString(b) == IF b THEN <<"t", "r", "u", "e">> ELSE <<"f", "a", "l", "s", "e">>

\* Double.toString: Number.isInteger(v) ? v + '.0' : v.toString()
DoubleToString(n) == NumberToString(n) \o <<".", "0">>

\* toString() of each wrapper class
ComponentToString(c) ==
    CASE c.t \in {"Class", "Attribute"} -> c.v
      [] c.t = "Index"        -> <<"[">> \o NumberToString(c.v) \o <<"]">>
      [] c.t = "Bytes"        -> <<"B", "y", "t", "e", "s", "(">>
                                 \o toHexWithUnderscores(c.v) \o <<")">>
      [] c.t = "ByteString"   -> <<"B", "y", "t", "e", "S", "t", "r", "i", "n", "g", "(">>
                                 \o toHexWithUnderscores(c.v) \o <<")">>
      [] c.t = "Chars"        -> <<"C", "h", "a", "r", "s", "(">>
                                 \o JsonStringify(c.v) \o <<")">>
      [] c.t = "BooleanValue" -> BooleanToString(c.v)
      [] c.t = "Date"         -> toISOString(c.v)
      [] c.t = "Double"       -> DoubleToString(c.v)
      [] c.t = "Float"        -> DoubleToString(c.v) \o <<"f">>
      [] c.t = "Long"         -> NumberToString(c.v)

toToken(o) ==
    CASE o.t = "boolean" -> BooleanToString(o.v)
      [] o.t = "number"  -> DoubleToString(o.v)
      [] o.t = "string"  -> JsonStringify(o.v)
      [] o.t = "JsDate"  -> toISOString(o.v)
      [] isInstanceOfComponent(o) -> ComponentToString(o)

\* String(x), the conversion the string fall-back comparisons apply
JsToString(o) ==
    CASE o.t = "boolean" -> BooleanToString(o.v)
      [] o.t = "number"  -> NumberToString(o.v)
      [] o.t = "string"  -> o.v
      [] o.t = "JsDate"  -> DateToString(o.v)
      [] isInstanceOfComponent(o) -> ComponentToString(o)

(***************************************************************************)
(* compareTo of the wrapper classes.  A comparison either returns a number *)
(* or throws.                                                              *)
(***************************************************************************)
Ret(n) == [thrown |-> FALSE, r |-> n]
Throws == [thrown |-> TRUE, r |-> 0]
Negate(c) == IF c.thrown THEN c ELSE Ret(-c.r)

\* the byte-by-byte loop shared by ByteString.compareTo and Bytes.compareTo
ByteDiff(x, y) ==
    LET n == IF Len(x) < Len(y) THEN Len(x) ELSE Len(y)
        D == {i \in 1..n : x[i] # y[i]}
    IN  IF D = {} THEN Len(x) - Len(y)
        ELSE LET k == SetMin(D) IN x[k] - y[k]

TypeOrderDiff(this, other) == Ret(getTypeOrder(this) - getTypeOrderForValue(other))

ClassCompareTo(this, other) ==
    IF other.t # "Class" THEN TypeOrderDiff(this, other)
    ELSE Ret(localeCompare(this.v, other.v))

AttributeCompareTo(this, other) ==
    IF other.t # "Attribute" THEN TypeOrderDiff(this, other)
    ELSE Ret(localeCompare(this.v, other.v))

IndexCompareTo(this, other) ==
    IF other.t # "Index" THEN TypeOrderDiff(this, other)
    ELSE Ret(this.v - other.v)

ByteStringCompareTo(this, other) ==
    IF other.t # "ByteString" THEN TypeOrderDiff(this, other)
    ELSE Ret(ByteDiff(this.v, other.v))

\* compares by length first, then contents
BytesCompareTo(this, other) ==
    IF other.t # "Bytes" THEN TypeOrderDiff(this, other)
    ELSE IF Len(this.v) # Len(other.v) THEN Ret(Len(this.v) - Len(other.v))
    ELSE Ret(ByteDiff(this.v, other.v))

CharsCompareTo(this, other) ==
    IF other.t # "Chars" THEN TypeOrderDiff(this, other)
    ELSE IF Len(this.v) # Len(other.v) THEN Ret(Len(this.v) - Len(other.v))
    ELSE Ret(localeCompare(this.v, other.v))

BooleanValueCompareTo(this, other) ==
    IF other.t \notin {"BooleanValue", "boolean"} THEN TypeOrderDiff(this, other)
    ELSE Ret(IF this.v = other.v THEN 0 ELSE IF this.v THEN 1 ELSE -1)

\* 'other instanceof idb.DateValue': idb.DateValue is not defined anywhere,
\* so the instanceof test throws a TypeError whatever other is.
DateCompareTo(this, other) == Throws

DoubleCompareTo(this, other) ==
    IF other.t # "Double" THEN TypeOrderDiff(this, other)
    ELSE Ret(this.v - other.v)

FloatCompareTo(this, other) ==
    IF other.t # "Float" THEN TypeOrderDiff(this, other)
    ELSE Ret(this.v - other.v)

LongCompareTo(this, other) ==
    IF other.t # "Long" THEN TypeOrderDiff(this, other)
    ELSE Ret(this.v - other.v)

\* this.compareTo(other), dispatched on the class of this
compareTo(this, other) ==
    CASE this.t = "Class"        -> ClassCompareTo(this, other)
      [] this.t = "Attribute"    -> AttributeCompareTo(this, other)
      [] this.t = "Index"        -> IndexCompareTo(this, other)
      [] this.t = "ByteString"   -> ByteStringCompareTo(this, other)
      [] this.t = "Bytes"        -> BytesCompareTo(this, other)
      [] this.t = "Chars"        -> CharsCompareTo(this, other)
      [] this.t = "BooleanValue" -> BooleanValueCompareTo(this, other)
      [] this.t = "Date"         -> DateCompareTo(this, other)
      [] this.t = "Double"       -> DoubleCompareTo(this, other)
      [] this.t = "Float"        -> FloatCompareTo(this, other)
      [] this.t = "Long"         -> LongCompareTo(this, other)

\* the comparison inside OrderedMap._binarySearch
KeyComparison(midKey, key) ==
    IF isInstanceOfComponent(midKey) THEN compareTo(midKey, key)
    ELSE IF isInstanceOfComponent(key) THEN Negate(compareTo(key, midKey))
    ELSE Ret(localeCompare(JsToString(midKey), JsToString(key)))

\* Item.compareTo: component by component, then by length
RECURSIVE ItemCompareFrom(_, _, _)
ItemCompareFrom(this, other, i) ==
    LET minLen == IF Len(this) < Len(other) THEN Len(this) ELSE Len(other)
    IN  IF i > minLen THEN Ret(Len(this) - Len(other))
        ELSE LET comp1 == this[i]
                 comp2 == other[i]
                 res == IF isInstanceOfComponent(comp1) THEN compareTo(comp1, comp2)
                        ELSE Ret(localeCompare(JsToString(comp1), JsToString(comp2)))
             IN  IF res.thrown THEN res
                 ELSE IF res.r # 0 THEN res
                 ELSE ItemCompareFrom(this, other, i + 1)

ItemCompareTo(this, other) == ItemCompareFrom(this, other, 1)

(***************************************************************************)
(* idb.OrderedMap: a node is [entries, isLeafNode, item]; entries is the   *)
(* sorted array of [key, value] pairs, value being the child node; item is *)
(* <<>> for null and <<i>> for the stored Item i.                          *)
(***************************************************************************)
NewOrderedMap == [entries |-> <<>>, isLeafNode |-> FALSE, item |-> <<>>]

\* _binarySearch; low, high and the returned index count from 0 as in the code
RECURSIVE BinarySearchFrom(_, _, _, _)
BinarySearchFrom(entries, key, low, high) ==
    IF low > high THEN [thrown |-> FALSE, found |-> FALSE, index |-> low]
    ELSE LET mid == (low + high) \div 2
             midKey == entries[mid + 1].key
             Branch(comparison) ==
                 IF comparison.thrown
                     THEN [thrown |-> TRUE, found |-> FALSE, index |-> mid]
                 ELSE IF comparison.r = 0
                     THEN [thrown |-> FALSE, found |-> TRUE, index |-> mid]
                 ELSE IF comparison.r < 0
                     THEN BinarySearchFrom(entries, key, mid + 1, high)
                 ELSE BinarySearchFrom(entries, key, low, mid - 1)
         IN  Branch(KeyComparison(midKey, key))

binarySearch(node, key) == BinarySearchFrom(node.entries, key, 0, Len(node.entries) - 1)

\* entries.splice(index, 0, e)
SpliceIn(entries, index, e) ==
    SubSeq(entries, 1, index) \o <<e>> \o SubSeq(entries, index + 1, Len(entries))

\* entries.splice(index, 1)
SpliceOut(entries, index) ==
    SubSeq(entries, 1, index) \o SubSeq(entries, index + 2, Len(entries))

\* OrderedMap.set, given the result s of its _binarySearch(key)
OrderedMapSet(node, s, key, value) ==
    IF s.found
        THEN [node EXCEPT !.entries[s.index + 1].value = value]
    ELSE [node EXCEPT !.entries = SpliceIn(@, s.index, [key |-> key, value |-> value])]

\* OrderedMap.delete, given the result s of its _binarySearch(key)
OrderedMapDelete(node, s) ==
    IF s.found THEN [node EXCEPT !.entries = SpliceOut(@, s.index)] ELSE node

isEmpty(node) == Len(node.entries) = 0

setIsLeaf(node, isLeaf) ==
    [node EXCEPT !.isLeafNode = isLeaf, !.item = IF isLeaf THEN @ ELSE <<>>]

(***************************************************************************)
(* idb.ItemSpace                                                           *)
(***************************************************************************)
\* _itemExists: "yes", "no", or "thrown" when a comparison throws
RECURSIVE ItemExistsFrom(_, _, _)
ItemExistsFrom(current, item, i) ==
    IF i > Len(item) THEN (IF current.isLeafNode THEN "yes" ELSE "no")
    ELSE LET Has(s) ==
                 IF s.thrown THEN "thrown"
                 ELSE IF ~s.found THEN "no"
                 ELSE ItemExistsFrom(current.entries[s.index + 1].value, item, i + 1)
         IN  Has(binarySearch(current, item[i]))

itemExists(node, item) ==
    IF Len(item) = 0 THEN "no" ELSE ItemExistsFrom(node, item, 1)

\* _addToMapView from component i on, below node current.  Each level does
\* has(component), set(component, new OrderedMap()) when absent, then
\* get(component).  A comparison that throws, or a get that returns null
\* (the next use of current then throws), ends the call with the nodes
\* changed so far left in place.
RECURSIVE AddToMapViewFrom(_, _, _)
AddToMapViewFrom(current, item, i) ==
    IF i > Len(item)
        THEN [node |-> [setIsLeaf(current, TRUE) EXCEPT !.item = <<item>>],
              thrown |-> FALSE]
    ELSE LET component == item[i]
             \* the rest of the item, added below the node that get() returned
             Descend(after, g, below) ==
                 [node |-> [after EXCEPT !.entries[g.index + 1].value = below.node],
                  thrown |-> below.thrown]
             \* current = current.get(component), g its _binarySearch
             Get(after, g) ==
                 IF g.thrown \/ ~g.found THEN [node |-> after, thrown |-> TRUE]
                 ELSE Descend(after, g,
                              AddToMapViewFrom(after.entries[g.index + 1].value,
                                               item, i + 1))
             \* after: current once set(component, new OrderedMap()) has run
             Set(after) == Get(after, binarySearch(after, component))
             \* if (!current.has(component)), h its _binarySearch
             Has(h) ==
                 IF h.thrown THEN [node |-> current, thrown |-> TRUE]
                 ELSE Set(IF h.found THEN current
                          ELSE OrderedMapSet(current, h, component, NewOrderedMap))
         IN  Has(binarySearch(current, component))

addToMapView(node, item) ==
    IF Len(item) = 0 THEN [node |-> node, thrown |-> FALSE]
    ELSE AddToMapViewFrom(node, item, 1)

\* addItem on the space [root, itemCount]; the result also says whether the
\* call threw
addItem(space, item) ==
    IF Len(item) = 0 THEN [root |-> space.root, itemCount |-> space.itemCount,
                           thrown |-> FALSE]
    ELSE LET Added(a) ==
                 IF a.thrown
                     THEN [root |-> a.node, itemCount |-> space.itemCount,
                           thrown |-> TRUE]
                 ELSE [root |-> a.node, itemCount |-> space.itemCount + 1,
                       thrown |-> FALSE]
             Exists(e) ==
                 IF e = "thrown"
                     THEN [root |-> space.root, itemCount |-> space.itemCount,
                           thrown |-> TRUE]
                 ELSE IF e = "yes"
                     THEN [root |-> space.root, itemCount |-> space.itemCount,
                           thrown |-> FALSE]
                 ELSE Added(addToMapView(space.root, item))
         IN  Exists(itemExists(space.root, item))

\* addItems: addItem of each Item in turn, up to the first that throws
RECURSIVE AddItemsFrom(_, _, _)
AddItemsFrom(space, list, n) ==
    IF n > Len(list)
        THEN [root |-> space.root, itemCount |-> space.itemCount, thrown |-> FALSE]
    ELSE LET Step(r) ==
                 IF r.thrown THEN r
                 ELSE AddItemsFrom([root |-> r.root, itemCount |-> r.itemCount],
                                   list, n + 1)
         IN  Step(addItem(space, list[n]))

addItems(space, list) == AddItemsFrom(space, list, 1)

\* removeItem from component i on, below node current.  removed: the item was
\* found at a leaf and unmarked; cleaning: the bottom-up clean-up loop has not
\* hit its break yet.
RECURSIVE RemoveItemFrom(_, _, _)
RemoveItemFrom(current, item, i) ==
    IF i > Len(item)
        THEN IF current.isLeafNode
                 THEN [node |-> [setIsLeaf(current, FALSE) EXCEPT !.item = <<>>],
                       removed |-> TRUE, cleaning |-> isEmpty(current),
                       thrown |-> FALSE]
             ELSE [node |-> current, removed |-> FALSE, cleaning |-> FALSE,
                   thrown |-> FALSE]
    ELSE LET \* the clean-up loop's step at this node, on the way back up
             CleanUp(s, below) ==
                 LET child == below.node
                     kept == [current EXCEPT !.entries[s.index + 1].value = child]
                 IN  IF below.cleaning /\ isEmpty(child) /\ ~child.isLeafNode
                         THEN [node |-> OrderedMapDelete(kept, s),
                               removed |-> below.removed, cleaning |-> TRUE,
                               thrown |-> below.thrown]
                     ELSE [node |-> kept, removed |-> below.removed,
                           cleaning |-> FALSE, thrown |-> below.thrown]
             \* if (!current.has(component)) return, s its _binarySearch
             Has(s) ==
                 IF s.thrown
                     THEN [node |-> current, removed |-> FALSE, cleaning |-> FALSE,
                           thrown |-> TRUE]
                 ELSE IF ~s.found
                     THEN [node |-> current, removed |-> FALSE, cleaning |-> FALSE,
                           thrown |-> FALSE]
                 ELSE CleanUp(s, RemoveItemFrom(current.entries[s.index + 1].value,
                                                item, i + 1))
         IN  Has(binarySearch(current, item[i]))

removeItem(space, item) ==
    IF Len(item) = 0 THEN [root |-> space.root, itemCount |-> space.itemCount,
                           thrown |-> FALSE]
    ELSE LET Removed(r) ==
                 [root |-> r.node,
                  itemCount |-> IF r.removed THEN space.itemCount - 1
                                ELSE space.itemCount,
                  thrown |-> r.thrown]
         IN  Removed(RemoveItemFrom(space.root, item, 1))

\* _collectItems / getItems: the stored Items in traversal order
RECURSIVE collectItems(_)
RECURSIVE CollectChildren(_, _)
CollectChildren(entries, k) ==
    IF k > Len(entries) THEN <<>>
    ELSE collectItems(entries[k].value) \o CollectChildren(entries, k + 1)
collectItems(node) ==
    (IF node.isLeafNode THEN node.item ELSE <<>>) \o CollectChildren(node.entries, 1)

getItems(space) == collectItems(space.root)

count(space) == space.itemCount

(***************************************************************************)
(* The ItemSpace as a state machine: addItem and removeItem calls with     *)
(* Items drawn from the client's working set.                              *)
(***************************************************************************)
MaxCalls == 8

ClassA == IdbClass(<<"A">>)

\* Items as idb.Item builds them: raw number, string, boolean and Date
\* components stay raw (isComponent), the others are wrappers.
\* A client that keeps many keys of mixed kinds in one node ...
WideItems ==
    << <<JsNumber(10)>>,
       <<JsString(<<"5">>)>>,
       <<JsNumber(7)>>,
       <<JsNumber(8)>>,
       <<IdbLong(1)>>,
       <<IdbFloat(1)>> >>

\* ... and one whose Items share prefixes.
DeepItems ==
    << <<>>,
       <<ClassA>>,
       <<ClassA, IdbLong(1)>>,
       <<ClassA, IdbLong(2)>>,
       <<ClassA, JsNumber(7)>>,
       <<ClassA, IdbDouble(2)>>,
       <<IdbDate(0)>> >>

\* ... and one whose Items reach a node through keys of different kinds.
MixedItems ==
    << <<ClassA, JsNumber(7), IdbLong(1)>>,
       <<ClassA, IdbDouble(2)>>,
       <<ClassA, JsNumber(7)>>,
       <<JsString(<<"5">>), IdbLong(1)>>,
       <<JsNumber(5)>> >>

ItemUniverses == {WideItems, DeepItems, MixedItems}

NoOp == [kind |-> "none", item |-> <<>>, thrown |-> FALSE, again |-> FALSE]

Space == [root |-> root, itemCount |-> itemCount]

AddItemCall(k) ==
    LET item == items[k]
        Returns(r) ==
            /\ root' = r.root
            /\ itemCount' = r.itemCount
            /\ lastOp' = [kind |-> "add", item |-> item, thrown |-> r.thrown,
                          again |-> lastOp.kind = "add" /\ lastOp.item = item]
    IN  /\ calls < MaxCalls
        /\ Returns(addItem(Space, item))
        /\ pre' = Space
        /\ calls' = calls + 1
        /\ UNCHANGED <<items, funVars>>

RemoveItemCall(k) ==
    LET item == items[k]
        Returns(r) ==
            /\ root' = r.root
            /\ itemCount' = r.itemCount
            /\ lastOp' = [kind |-> "remove", item |-> item, thrown |-> r.thrown,
                          again |-> lastOp.kind = "add" /\ lastOp.item = item]
    IN  /\ calls < MaxCalls
        /\ Returns(removeItem(Space, item))
        /\ pre' = Space
        /\ calls' = calls + 1
        /\ UNCHANGED <<items, funVars>>

\* addItems of two Items of the working set that follow each other
AddItemsCall(k) ==
    LET Returns(r) ==
            /\ root' = r.root
            /\ itemCount' = r.itemCount
            /\ lastOp' = [kind |-> "addItems", item |-> items[k], thrown |-> r.thrown,
                          again |-> FALSE]
    IN  /\ calls < MaxCalls
        /\ k < Len(items)
        /\ Returns(addItems(Space, <<items[k], items[k + 1]>>))
        /\ pre' = Space
        /\ calls' = calls + 1
        /\ UNCHANGED <<items, funVars>>

FunIdle == arg1 = <<>> /\ arg2 = <<>> /\ result = <<>> /\ pc = "idle"

SpaceInit ==
    /\ root = NewOrderedMap
    /\ itemCount = 0
    /\ lastOp = NoOp
    /\ pre = [root |-> NewOrderedMap, itemCount |-> 0]
    /\ items \in ItemUniverses
    /\ calls = 0

Init == SpaceInit /\ FunIdle

Next ==
    \/ \E k \in 1..Len(items) : AddItemCall(k)
    \/ \E k \in 1..Len(items) : RemoveItemCall(k)
    \/ \E k \in 1..Len(items) : AddItemsCall(k)

Spec == Init /\ [][Next]_vars

(***************************************************************************)
(* The codec: idb.key, idb.unQuote and idb.fromToken with the parsers of   *)
(* the wrapper classes.  A call returns a value or the thrown error.       *)
(***************************************************************************)
SyntaxError == [t |-> "SyntaxError", v |-> 0]

\* idb.key without the stuffed underscore for a string that starts with one
keyUnstuffed(o) ==
    IF o.t = "string" THEN o.v ELSE <<"_">> \o toToken(o)

\* idb.key for a non-null o
key(o) ==
    IF o.t = "string"
    THEN (IF Len(o.v) > 0 /\ o.v[1] = "_" THEN <<"_">> \o o.v ELSE o.v)
    ELSE <<"_">> \o toToken(o)

\* idb.Number.isDigit(o.charAt(0)): '0123456789'.includes(c), and every
\* string includes the empty string
isDigit(o) == Len(o) = 0 \/ o[1] \in Digits

AllDigits(s) == \A i \in 1..Len(s) : s[i] \in Digits

RECURSIVE StringToNat(_)
StringToNat(s) ==
    IF Len(s) = 0 THEN 0
    ELSE StringToNat(SubSeq(s, 1, Len(s) - 1)) * 10 + (IndexOf(DigitSeq, s[Len(s)]) - 1)

\* the longest prefix of s made of characters of S
RECURSIVE PrefixIn(_, _)
PrefixIn(s, S) ==
    IF Len(s) = 0 \/ s[1] \notin S THEN <<>> ELSE <<s[1]>> \o PrefixIn(Tail(s), S)

\* isNaN(s) of a string: Number(s) is NaN.  Decimal literals only: digits
\* with at most one point, an optional sign; the empty string is 0.
isNaN(s) ==
    LET u == IF Len(s) > 0 /\ s[1] \in {"-", "+"} THEN Tail(s) ELSE s
        int == PrefixIn(u, Digits)
        rest == SubSeq(u, Len(int) + 1, Len(u))
        numeric == \/ s = <<>>
                   \/ (Len(int) > 0 /\ rest = <<>>)
                   \/ (Len(rest) > 0 /\ rest[1] = "." /\ AllDigits(Tail(rest))
                       /\ Len(int) + Len(rest) > 1)
    IN  ~numeric

\* Number.parseInt(s) and Number.parseFloat(s) for integer-valued results:
\* <<>> is NaN, <<n>> the number n
parseInt(s) ==
    LET neg == Len(s) > 0 /\ s[1] = "-"
        u == IF Len(s) > 0 /\ s[1] \in {"-", "+"} THEN Tail(s) ELSE s
        int == PrefixIn(u, Digits)
    IN  IF Len(int) = 0 THEN <<>>
        ELSE <<IF neg THEN -StringToNat(int) ELSE StringToNat(int)>>

parseFloat(s) == parseInt(s)

IsoCore(s) ==
    /\ Len(s) = 19
    /\ \A i \in 1..19 :
          CASE i \in {5, 8}   -> s[i] = "-"
            [] i = 11         -> s[i] = "T"
            [] i \in {14, 17} -> s[i] = ":"
            [] OTHER          -> s[i] \in Digits

IsoFraction(s) == Len(s) \in 2..4 /\ s[1] = "." /\ AllDigits(Tail(s))

IsoZone(s) ==
    \/ s = <<"Z">>
    \/ /\ Len(s) = 6
       /\ s[1] \in {"-", "+"}
       /\ s[4] = ":"
       /\ \A i \in {2, 3, 5, 6} : s[i] \in Digits

isValidIsoDate(dateString) ==
    /\ Len(dateString) >= 19
    /\ IsoCore(SubSeq(dateString, 1, 19))
    /\ \E f \in {0, 2, 3, 4}, z \in {0, 1, 6} :
          /\ Len(dateString) = 19 + f + z
          /\ f > 0 => IsoFraction(SubSeq(dateString, 20, 19 + f))
          /\ z > 0 => IsoZone(SubSeq(dateString, 20 + f, Len(dateString)))

\* new Date(s) for the ISO text of a day of January 1970
NewDate(s) ==
    LET D == {d \in 0..30 : toISOString(d) = s}
    IN  IF D = {} THEN [t |-> "JsDate", v |-> -1] ELSE JsDate(CHOOSE d \in D : TRUE)

\* the constructors that validate their argument
ClassIsValidName(s) ==
    /\ Len(s) > 0
    /\ s[1] \in UpperCase
    /\ \A i \in 2..Len(s) : s[i] \in LowerCase \cup UpperCase \cup Digits \cup {".", "_"}

AttributeIsValidName(s) ==
    /\ Len(s) > 0
    /\ s[1] \in LowerCase
    /\ \A i \in 2..Len(s) : s[i] \in LowerCase \cup UpperCase \cup Digits \cup {".", "_"}

NewClass(name) == IF ClassIsValidName(name) THEN IdbClass(name) ELSE TypeError
NewAttribute(name) == IF AttributeIsValidName(name) THEN IdbAttribute(name) ELSE TypeError

\* new idb.Long(n) where n may be NaN (<<>>): Number.isInteger(n) or throw
NewLong(n) == IF n = <<>> THEN TypeError ELSE IdbLong(n[1])

\* s.slice(from, -1) with from counted from 0
SliceToLast(s, from) == SubSeq(s, from + 1, Len(s) - 1)

\* idb.Index.parse
IndexParse(s) ==
    LET body == IF StartsWith(s, <<"I", "n", "d", "e", "x", "(">>) /\ EndsWith(s, <<")">>)
                THEN <<SliceToLast(s, 6)>>
                ELSE IF StartsWith(s, <<"[">>) /\ EndsWith(s, <<"]">>)
                THEN <<SliceToLast(s, 1)>>
                ELSE <<>>
    IN  IF body = <<>> THEN TypeError
        ELSE LET n == parseInt(body[1])
             IN  IF n = <<>> THEN TypeError ELSE IdbIndex(n[1])

HexDigitSeq == <<"0", "1", "2", "3", "4", "5", "6", "7", "8", "9",
                 "a", "b", "c", "d", "e", "f">>
HexDigitValue(c) ==
    IF c \in UpperCase THEN IndexOf(HexDigitSeq, LowerSeq[IndexOf(UpperSeq, c)]) - 1
    ELSE IndexOf(HexDigitSeq, c) - 1
IsHexDigit(c) == c \in Range(hexChars) \cup Range(HexDigitSeq)

\* Number.parseInt(hex, 16) of a text of at most two characters: the
\* leading hex digits count, <<>> is NaN
parseIntHex(hex) ==
    LET u == IF hex[1] \in {" ", "+"} THEN Tail(hex) ELSE hex
        d == PrefixIn(u, {c \in AllChars : IsHexDigit(c)})
    IN  IF Len(d) = 0 THEN <<>>
        ELSE IF Len(d) = 1 THEN <<HexDigitValue(d[1])>>
        ELSE <<16 * HexDigitValue(d[1]) + HexDigitValue(d[2])>>

\* idb.ByteArray.fromHexWithUnderscores: <<>> when it throws, <<bytes>> else
fromHexWithUnderscores(s) ==
    IF Len(s) = 0 THEN << <<>> >>
    ELSE IF (Len(s) + 1) % 3 # 0 THEN <<>>
    ELSE LET n == (Len(s) + 1) \div 3
             hex(k) == SubSeq(s, 3 * k - 2, 3 * k - 1)
             bad(k) == \/ parseIntHex(hex(k)) = <<>>
                       \/ \E i \in 1..2 : hex(k)[i] \in LowerCase
                       \/ (k < n /\ s[3 * k] # "_")
         IN  IF \E k \in 1..n : bad(k) THEN <<>>
             ELSE << [k \in 1..n |-> parseIntHex(hex(k))[1]] >>

\* idb.ByteArray.parse of the subclass cls, whose this.name is name
ByteArrayParse(cls, name, o) ==
    IF ~StartsWith(o, name \o <<"(">>) \/ ~EndsWith(o, <<")">>) THEN TypeError
    ELSE LET bytes == fromHexWithUnderscores(SliceToLast(o, Len(name) + 1))
         IN  IF bytes = <<>> THEN TypeError ELSE [t |-> cls, v |-> bytes[1]]

\* JSON.parse of a string literal without its quotes: <<>> on a syntax
\* error, <<text>> else
RECURSIVE JsonUnescape(_)
JsonUnescape(s) ==
    IF Len(s) = 0 THEN << <<>> >>
    ELSE IF s[1] = "\"" THEN <<>>
    ELSE IF s[1] = "\\"
    THEN (IF Len(s) < 2 \/ s[2] \notin {"\"", "\\", "/"} THEN <<>>
          ELSE LET rest == JsonUnescape(SubSeq(s, 3, Len(s)))
               IN  IF rest = <<>> THEN <<>> ELSE << <<s[2]>> \o rest[1] >>)
    ELSE LET rest == JsonUnescape(Tail(s))
         IN  IF rest = <<>> THEN <<>> ELSE << <<s[1]>> \o rest[1] >>

\* JSON.parse(s) where a string literal is expected
JsonParseString(s) ==
    IF Len(s) < 2 \/ s[1] # "\"" \/ s[Len(s)] # "\"" THEN <<>>
    ELSE JsonUnescape(SubSeq(s, 2, Len(s) - 1))

\* idb.Chars.parse
CharsParse(s) ==
    IF ~StartsWith(s, <<"C", "h", "a", "r", "s", "(">>) \/ ~EndsWith(s, <<")">>)
    THEN TypeError
    ELSE LET text == JsonParseString(SliceToLast(s, 6))
         IN  IF text = <<>> THEN SyntaxError ELSE IdbChars(text[1])

\* s.slice(0, -1)
DropLast(s) == SubSeq(s, 1, Len(s) - 1)

fromToken(o) ==
    IF o = <<"n", "u", "l", "l">> THEN JsNull
    ELSE IF o = <<"t", "r", "u", "e">> THEN JsBoolean(TRUE)
    ELSE IF o = <<"f", "a", "l", "s", "e">> THEN JsBoolean(FALSE)
    ELSE IF isDigit(o)
    THEN (IF isValidIsoDate(o) THEN NewDate(o)
          ELSE IF Includes(o, ".")
          THEN (IF EndsWith(o, <<"f">>)
                THEN (IF isNaN(DropLast(o)) THEN TypeError
                      ELSE IdbFloat(parseFloat(DropLast(o))[1]))
                ELSE IF isNaN(o) THEN TypeError
                ELSE IdbDouble(parseFloat(o)[1]))
          ELSE IF isNaN(o) THEN TypeError
          ELSE NewLong(parseInt(o)))
    ELSE IF ~Includes(o, "(")
    THEN (IF StartsWith(o, <<"[">>) THEN IndexParse(o)
          ELSE IF o[1] \in UpperCase THEN NewClass(o)
          ELSE NewAttribute(o))
    ELSE IF StartsWith(o, <<"B", "y", "t", "e", "s", "(">>)
    THEN ByteArrayParse("Bytes", <<"B", "y", "t", "e", "s">>, o)
    ELSE IF StartsWith(o, <<"B", "y", "t", "e", "S", "t", "r", "i", "n", "g", "(">>)
    THEN ByteArrayParse("ByteString",
                        <<"B", "y", "t", "e", "S", "t", "r", "i", "n", "g">>, o)
    ELSE IF StartsWith(o, <<"C", "h", "a", "r", "s", "(">>) THEN CharsParse(o)
    ELSE IF StartsWith(o, <<"I", "n", "d", "e", "x", "(">>) THEN IndexParse(o)
    ELSE TypeError

\* idb.unQuote of a string o
unQuote(o) ==
    IF o = <<>> THEN JsString(<<>>)
    ELSE IF o[1] # "_" THEN JsString(o)
    ELSE IF StartsWith(o, <<"_", "_">>) THEN JsString(Tail(o))
    ELSE fromToken(Tail(o))

(***************************************************************************)
(* The codec as a pipeline: a value is quoted with idb.key and the key is  *)
(* unquoted with idb.unQuote.                                              *)
(***************************************************************************)
SpaceIdle ==
    /\ root = NewOrderedMap
    /\ itemCount = 0
    /\ lastOp = NoOp
    /\ pre = [root |-> NewOrderedMap, itemCount |-> 0]
    /\ items = <<>>
    /\ calls = 0

CodecNumbers == {0, 1, 5, 10, -5}
CodecNames == {<<"a">>, <<"a", "B", "1">>, <<"x", ".", "y", "_", "z">>,
               <<"t", "r", "u", "e">>, <<"f", "a", "l", "s", "e">>,
               <<"n", "u", "l", "l">>, <<"n", "u", "l", "l", "s">>}
CodecStrings == {<<>>, <<"a">>, <<"_">>, <<"_", "a">>, <<"_", "_", "a">>, <<"5">>,
                 <<"A">>, <<"t", "r", "u", "e">>, <<"a", "\"", "b">>,
                 <<"B", "y", "t", "e", "s", "(", ")">>, <<"_", "_">>, <<"_", "5">>,
                 <<"_", "A">>, <<"_", "t", "r", "u", "e">>, <<"n", "u", "l", "l">>}
CodecByteArrays == {<<>>, <<0>>, <<166, 99>>, <<255, 1, 16>>}

CodecValues ==
    {IdbClass(<<"A">>), IdbClass(<<"A", "b", "9">>), IdbClass(<<"B", "y", "t", "e", "s">>),
     IdbClass(<<"X", ".", "Y", "_", "z">>)}
    \cup {IdbAttribute(n) : n \in CodecNames}
    \cup {JsString(x) : x \in CodecStrings}
    \cup {JsBoolean(b) : b \in BOOLEAN} \cup {IdbBooleanValue(b) : b \in BOOLEAN}
    \cup {IdbFloat(n) : n \in CodecNumbers} \cup {IdbDouble(n) : n \in CodecNumbers}
    \cup {JsNumber(n) : n \in CodecNumbers} \cup {IdbLong(n) : n \in CodecNumbers}
    \cup {JsDate(d) : d \in {0, 14}} \cup {IdbDate(d) : d \in {0, 30}}
    \cup {IdbBytes(b) : b \in CodecByteArrays}
    \cup {IdbByteString(b) : b \in CodecByteArrays}
    \cup {IdbChars(x) : x \in CodecStrings}
    \cup {IdbIndex(n) : n \in CodecNumbers}

CodecInit ==
    /\ SpaceIdle
    /\ arg1 \in CodecValues
    /\ arg2 = <<>>
    /\ result = <<>>
    /\ pc = "value"

KeyCall ==
    /\ pc = "value"
    /\ arg2' = key(arg1)
    /\ pc' = "key"
    /\ UNCHANGED <<arg1, result, spaceVars>>

UnQuoteCall ==
    /\ pc = "key"
    /\ result' = unQuote(arg2)
    /\ pc' = "unQuote"
    /\ UNCHANGED <<arg1, arg2, spaceVars>>

CodecNext == KeyCall \/ UnQuoteCall

SpecCodec == CodecInit /\ [][CodecNext]_vars

(***************************************************************************)
(* The comparisons applied to pairs of Components and pairs of Items.      *)
(***************************************************************************)
CompareValues ==
    {IdbClass(<<"A">>), IdbClass(<<"B">>), IdbAttribute(<<"a">>),
     JsString(<<"z">>), JsString(<<"5">>), JsString(<<"t", "r", "u", "e">>),
     JsBoolean(TRUE), JsBoolean(FALSE), IdbBooleanValue(TRUE), IdbBooleanValue(FALSE),
     IdbFloat(1), IdbFloat(2), IdbDouble(2), IdbDouble(7),
     JsNumber(2), JsNumber(7), JsNumber(10), IdbLong(1), IdbLong(2),
     JsDate(0), JsDate(1), IdbDate(0), IdbDate(1),
     IdbBytes(<<1, 2>>), IdbBytes(<<3>>),
     IdbByteString(<<1>>), IdbByteString(<<1, 2>>), IdbByteString(<<2>>),
     IdbChars(<<"a">>), IdbIndex(0), IdbIndex(1)}

CompareItems ==
    {<<>>, <<ClassA>>, <<ClassA, IdbLong(1)>>, <<ClassA, IdbLong(2)>>,
     <<ClassA, JsNumber(2)>>, <<ClassA, JsNumber(10)>>, <<ClassA, IdbDouble(2)>>,
     <<IdbClass(<<"B">>)>>, <<IdbAttribute(<<"a">>), IdbLong(1)>>,
     <<JsNumber(2)>>, <<JsNumber(10)>>, <<JsString(<<"z">>)>>, <<JsBoolean(TRUE)>>,
     <<IdbLong(1)>>, <<ClassA, IdbLong(1), IdbIndex(0)>>}

CompareInit ==
    /\ SpaceIdle
    /\ \/ pc = "components" /\ arg1 \in CompareValues /\ arg2 \in CompareValues
       \/ pc = "items" /\ arg1 \in CompareItems /\ arg2 \in CompareItems
    /\ result = <<>>

\* a.compareTo(b) of a wrapper a
CompareToCall ==
    /\ pc = "components"
    /\ isInstanceOfComponent(arg1)
    /\ result' = compareTo(arg1, arg2)
    /\ pc' = "compareTo"
    /\ UNCHANGED <<arg1, arg2, spaceVars>>

\* the comparison of entries[mid].key = arg1 with the searched key = arg2
KeyComparisonCall ==
    /\ pc = "components"
    /\ result' = KeyComparison(arg1, arg2)
    /\ pc' = "binarySearch"
    /\ UNCHANGED <<arg1, arg2, spaceVars>>

ItemCompareToCall ==
    /\ pc = "items"
    /\ result' = ItemCompareTo(arg1, arg2)
    /\ pc' = "Item.compareTo"
    /\ UNCHANGED <<arg1, arg2, spaceVars>>

CompareNext == CompareToCall \/ KeyComparisonCall \/ ItemCompareToCall

SpecCompare == CompareInit /\ [][CompareNext]_vars

(***************************************************************************)
(* ItemSpace.toIdbObject and ItemSpace.fromIdbObject.  A JavaScript value  *)
(* in the nested-key object is null or an object [isNull, props], props    *)
(* being its own properties [key, value] in for-in order: the keys that    *)
(* are array indexes first, ascending, then the others in the order they   *)
(* were created.                                                           *)
(***************************************************************************)
JsObjectNull == [isNull |-> TRUE, props |-> <<>>]
JsObject(props) == [isNull |-> FALSE, props |-> props]

\* a property key that is a canonical array index: "0", "5", "10"
IsArrayIndex(k) == Len(k) > 0 /\ AllDigits(k) /\ (Len(k) = 1 \/ k[1] # "0")

\* obj[k]: <<>> when obj has no property k
GetProp(obj, k) ==
    LET I == {i \in 1..Len(obj.props) : obj.props[i].key = k}
    IN  IF I = {} THEN <<>> ELSE <<obj.props[CHOOSE i \in I : TRUE].value>>

\* where a new property k goes in the for-in order of props
NewPropIndex(props, k) ==
    IF IsArrayIndex(k)
        THEN Cardinality({i \in 1..Len(props) :
                              /\ IsArrayIndex(props[i].key)
                              /\ StringToNat(props[i].key) < StringToNat(k)})
    ELSE Len(props)

\* obj[k] = v
SetProp(obj, k, v) ==
    LET I == {i \in 1..Len(obj.props) : obj.props[i].key = k}
    IN  IF I # {} THEN [obj EXCEPT !.props[CHOOSE i \in I : TRUE].value = v]
        ELSE [obj EXCEPT !.props =
                 SpliceIn(@, NewPropIndex(@, k), [key |-> k, value |-> v])]

\* Item.toIdbObject from component i on: one nested object per component,
\* the last key mapped to null
RECURSIVE ItemToIdbObjectFrom(_, _)
ItemToIdbObjectFrom(components, i) ==
    IF i = Len(components)
        THEN SetProp(JsObject(<<>>), key(components[i]), JsObjectNull)
    ELSE SetProp(JsObject(<<>>), key(components[i]),
                 ItemToIdbObjectFrom(components, i + 1))

ItemToIdbObject(components) ==
    IF Len(components) = 0 THEN JsObject(<<>>)
    ELSE ItemToIdbObjectFrom(components, 1)

\* ItemSpace._deepMerge(target, source)
RECURSIVE deepMerge(_, _)
RECURSIVE DeepMergeFrom(_, _, _)
DeepMergeFrom(target, source, n) ==
    IF n > Len(source.props) THEN target
    ELSE LET p == source.props[n]
             had == GetProp(target, p.key)
             \* if (!target[key]) target[key] = {}
             inner == IF had = <<>> THEN JsObject(<<>>)
                      ELSE IF had[1].isNull THEN JsObject(<<>>)
                      ELSE had[1]
         IN  DeepMergeFrom(
                 IF p.value.isNull THEN SetProp(target, p.key, JsObjectNull)
                 ELSE SetProp(target, p.key, deepMerge(inner, p.value)),
                 source, n + 1)

deepMerge(target, source) == DeepMergeFrom(target, source, 1)

\* ItemSpace._nodeToIdbObject
RECURSIVE nodeToIdbObject(_)
RECURSIVE NodeEntriesToIdbObject(_, _, _)
NodeEntriesToIdbObject(node, n, obj) ==
    IF n > Len(node.entries) THEN obj
    ELSE LET keyString == key(node.entries[n].key)
             Merged(childObj) ==
                 IF ~childObj.isNull
                     THEN deepMerge(obj, SetProp(JsObject(<<>>), keyString, childObj))
                 ELSE SetProp(obj, keyString, JsObjectNull)
         IN  NodeEntriesToIdbObject(
                 node, n + 1, Merged(nodeToIdbObject(node.entries[n].value)))

nodeToIdbObject(node) ==
    IF node.isLeafNode /\ isEmpty(node) THEN JsObjectNull
    ELSE IF node.isLeafNode THEN ItemToIdbObject(node.item[1])
    ELSE NodeEntriesToIdbObject(node, 1, JsObject(<<>>))

toIdbObject(space) == nodeToIdbObject(space.root)

\* extractPaths inside fromIdbObject: the key paths that end in null
RECURSIVE extractPaths(_, _)
RECURSIVE ExtractPathsFrom(_, _, _)
ExtractPathsFrom(current, path, n) ==
    IF n > Len(current.props) THEN <<>>
    ELSE extractPaths(current.props[n].value, Append(path, current.props[n].key))
         \o ExtractPathsFrom(current, path, n + 1)

extractPaths(current, path) ==
    IF current.isNull THEN <<path>> ELSE ExtractPathsFrom(current, path, 1)

\* the components item.addComponent(idb.unQuote(key)) collects for a path
UnQuotePath(path) == [i \in 1..Len(path) |-> unQuote(path[i])]

\* idb.unQuote throws, or addComponent throws on a null component
PathThrows(components) ==
    \E i \in 1..Len(components) :
        components[i].t \in {"TypeError", "SyntaxError", "null"}

\* the loop over the paths from path n on; a throw ends fromIdbObject
RECURSIVE AddPaths(_, _, _)
AddPaths(space, paths, n) ==
    IF n > Len(paths) THEN space
    ELSE LET Added(r) == IF r.thrown THEN r ELSE AddPaths(r, paths, n + 1)
             Built(components) ==
                 IF PathThrows(components)
                     THEN [root |-> space.root, itemCount |-> space.itemCount,
                           thrown |-> TRUE]
                 ELSE Added(addItem(space, components))
         IN  Built(UnQuotePath(paths[n]))

fromIdbObject(obj) ==
    AddPaths([root |-> NewOrderedMap, itemCount |-> 0, thrown |-> FALSE],
             extractPaths(obj, <<>>), 1)

(***************************************************************************)
(* An ItemSpace filled by addItem calls, converted with toIdbObject and    *)
(* read back with fromIdbObject, as the round trip conversion test does.   *)
(* arg1 is the nested-key object, result the ItemSpace read back.          *)
(***************************************************************************)
IdbObjectItems ==
    << <<ClassA, JsString(<<"d">>), IdbLong(1)>>,
       <<ClassA, JsString(<<"d">>), IdbLong(2)>>,
       <<ClassA, JsString(<<"o">>), IdbAttribute(<<"a">>)>>,
       <<ClassA>>,
       <<JsString(<<"5">>)>>,
       <<IdbLong(-5)>> >>

IdbObjectInit ==
    /\ root = NewOrderedMap
    /\ itemCount = 0
    /\ lastOp = NoOp
    /\ pre = [root |-> NewOrderedMap, itemCount |-> 0]
    /\ items = IdbObjectItems
    /\ calls = 0
    /\ FunIdle

\* space.addItem(item) while the space is being filled
FillCall(k) == pc = "idle" /\ AddItemCall(k)

\* obj = space.toIdbObject()
ToIdbObjectCall ==
    /\ pc = "idle"
    /\ arg1' = toIdbObject(Space)
    /\ pc' = "toIdbObject"
    /\ UNCHANGED <<arg2, result, spaceVars>>

\* space2 = idb.ItemSpace.fromIdbObject(obj)
FromIdbObjectCall ==
    /\ pc = "toIdbObject"
    /\ result' = fromIdbObject(arg1)
    /\ pc' = "fromIdbObject"
    /\ UNCHANGED <<arg1, arg2, spaceVars>>

IdbObjectNext ==
    \/ \E k \in 1..Len(items) : FillCall(k)
    \/ ToIdbObjectCall
    \/ FromIdbObjectCall

SpecIdbObject == IdbObjectInit /\ [][IdbObjectNext]_vars

(***************************************************************************)
(* Java side.  A Java object is [t, v] with t its class; a JsonElement is  *)
(* [kind, value, children]: kind "Value" holds value, kind "Object" and    *)
(* "List" hold children, a sequence of [key, child] in iteration order,    *)
(* and kind "null" is a null reference in place of a child.                *)
(* Doubles and Floats are integer-valued, Dates as on the JavaScript side, *)
(* and the default time zone of SimpleDateFormat is UTC.                   *)
(***************************************************************************)
JavaNull               == [t |-> "null", v |-> 0]
JavaString(x)          == [t |-> "String", v |-> x]
JavaBoolean(b)         == [t |-> "Boolean", v |-> b]
JavaLong(n)            == [t |-> "Long", v |-> n]
JavaDouble(n)          == [t |-> "Double", v |-> n]
JavaFloat(n)           == [t |-> "Float", v |-> n]
JavaDate(d)            == [t |-> "Date", v |-> d]
JavaBytes(b)           == [t |-> "byte[]", v |-> b]
JavaChars(x)           == [t |-> "char[]", v |-> x]
JavaIdbClass(name)     == [t |-> "IdbClass", v |-> name]
JavaIdbAttribute(name) == [t |-> "IdbAttribute", v |-> name]
JavaIdbIndex(n)        == [t |-> "IdbIndex", v |-> n]
JavaIdbByteArray(b)    == [t |-> "IdbByteArray", v |-> b]
JavaIdbByteString(b)   == [t |-> "IdbByteString", v |-> b]
JavaIdbCharArray(x)    == [t |-> "IdbCharArray", v |-> x]

JsonValue(v)     == [kind |-> "Value", value |-> v, children |-> <<>>]
JsonObject(kids) == [kind |-> "Object", value |-> JavaNull, children |-> kids]
JsonList(kids)   == [kind |-> "List", value |-> JavaNull, children |-> kids]
NullElement      == [kind |-> "null", value |-> JavaNull, children |-> <<>>]

\* JsonParser.convertToJsonString
RECURSIVE ConvertChars(_)
ConvertChars(chars) ==
    IF Len(chars) = 0 THEN <<>>
    ELSE (IF chars[1] \in {"\"", "\\"} THEN <<"\\", chars[1]>> ELSE <<chars[1]>>)
         \o ConvertChars(Tail(chars))

convertToJsonString(chars) == <<"\"">> \o ConvertChars(chars) \o <<"\"">>

\* IdbByteArray.toHexString
RECURSIVE toHexString(_)
toHexString(bytes) ==
    IF Len(bytes) = 0 THEN <<>>
    ELSE LET b == bytes[Len(bytes)]
             pair == <<hexChars[(b \div 16) + 1], hexChars[(b % 16) + 1]>>
         IN  IF Len(bytes) = 1 THEN pair
             ELSE toHexString(SubSeq(bytes, 1, Len(bytes) - 1)) \o <<"_">> \o pair

\* Double.toString and Float.toString of an integer-valued number
JavaDoubleToString(n) == NumberToString(n) \o <<".", "0">>

\* o.toString() of the classes that can be held by a JsonValue
JavaToString(o) ==
    CASE o.t = "String"  -> o.v
      [] o.t = "Boolean" -> BooleanToString(o.v)
      [] o.t = "Long"    -> NumberToString(o.v)
      [] o.t \in {"Double", "Float"} -> JavaDoubleToString(o.v)
      [] o.t \in {"IdbClass", "IdbAttribute"} -> o.v
      [] o.t = "IdbIndex" -> <<"[">> \o NumberToString(o.v) \o <<"]">>
      [] o.t = "IdbByteArray"  -> <<"B", "y", "t", "e", "s", "(">>
                                  \o toHexString(o.v) \o <<")">>
      [] o.t = "IdbByteString" -> <<"B", "y", "t", "e", "S", "t", "r", "i", "n", "g", "(">>
                                  \o toHexString(o.v) \o <<")">>
      [] o.t = "IdbCharArray"  -> <<"C", "h", "a", "r", "s", "(">>
                                  \o convertToJsonString(o.v) \o <<")">>

\* ISO_SIMPLE_DATE_FORMAT.format(date)
DateFormat(d) == toISOString(d)

\* a non-null o that qKeyUnderscoreQuoting and qKeyExtended render
qKeyUnderscoreQuoting(o) ==
    CASE o.t = "Long"    -> <<"_">> \o JavaToString(o)
      [] o.t = "Boolean" -> <<"_">> \o BooleanToString(o.v)
      [] o.t = "Double"  -> <<"_">> \o JavaToString(o)
      [] o.t = "Float"   -> <<"_">> \o JavaToString(o) \o <<"f">>
      [] o.t = "String"  -> IF StartsWith(o.v, <<"_">>) THEN <<"_">> \o o.v ELSE o.v
      [] o.t = "Date"    -> <<"_">> \o DateFormat(o.v)
      [] o.t = "byte[]"  -> JavaToString(JavaIdbByteArray(o.v))
      [] o.t = "char[]"  -> JavaToString(JavaIdbCharArray(o.v))
      [] OTHER           -> <<"_">> \o JavaToString(o)

qKeyExtended(o) ==
    CASE o.t = "Long"    -> JavaToString(o)
      [] o.t = "Float"   -> JavaToString(o) \o <<"f">>
      [] o.t = "Double"  -> JavaToString(o)
      [] o.t = "String"  -> convertToJsonString(o.v)
      [] o.t = "Date"    -> DateFormat(o.v)
      [] o.t = "byte[]"  -> JavaToString(JavaIdbByteArray(o.v))
      [] o.t = "char[]"  -> JavaToString(JavaIdbCharArray(o.v))
      [] OTHER           -> JavaToString(o)

qKey(o, isUnderscoreQuoting) ==
    IF isUnderscoreQuoting THEN qKeyUnderscoreQuoting(o) ELSE qKeyExtended(o)

\* qValue returns o itself for a Double or Boolean and a String otherwise
qValue(o, isUnderscoreQuoting) ==
    IF o.t \in {"Double", "Boolean"} THEN o
    ELSE JavaString(qKey(o, isUnderscoreQuoting))

\* JsonElement.underscoreQuote of a JsonValue holding value
underscoreQuote(value, useUnderscoreQuoting) ==
    IF value.t = "null" THEN <<"n", "u", "l", "l">>
    ELSE LET q == qValue(value, useUnderscoreQuoting)
         IN  IF useUnderscoreQuoting /\ q.t = "String" THEN convertToJsonString(q.v)
             ELSE JavaToString(q)

\* JsonElement.writeJson with indent 0 and an empty eolString, as toString
\* and toStringAsExtendedFormat call it
RECURSIVE writeJson(_, _)
RECURSIVE WriteChildren(_, _, _, _)
WriteChildren(e, k, useUnderscoreQuoting, isFirst) ==
    IF k > Len(e.children) THEN <<>>
    ELSE LET v == e.children[k].key
             child == e.children[k].child
         IN  (IF isFirst THEN <<>> ELSE <<",">>)
             \o <<" ">>
             \o (IF e.kind = "Object"
                 THEN underscoreQuote(v, useUnderscoreQuoting) \o <<":", " ">>
                 ELSE <<>>)
             \o (IF child.kind # "null" THEN writeJson(child, useUnderscoreQuoting)
                 ELSE <<"n", "u", "l", "l">>)
             \o WriteChildren(e, k + 1, useUnderscoreQuoting, FALSE)

writeJson(e, useUnderscoreQuoting) ==
    IF e.kind = "Value" THEN underscoreQuote(e.value, useUnderscoreQuoting)
    ELSE <<IF e.kind = "List" THEN "[" ELSE "{">>
         \o WriteChildren(e, 1, useUnderscoreQuoting, TRUE)
         \o <<" ">>
         \o <<IF e.kind = "List" THEN "]" ELSE "}">>

toString(e) == writeJson(e, TRUE)
toStringAsExtendedFormat(e) == writeJson(e, FALSE)

(***************************************************************************)
(* JsonParser.JsonTokenizer.  pos counts from 0 as in the source; a        *)
(* matcher gives the position after the match, or -1 when it fails.        *)
(***************************************************************************)
CharAt(s, pos) == s[pos + 1]

\* digits(n)
digits(s, pos, n) ==
    IF pos + n <= Len(s) /\ \A i \in pos..(pos + n - 1) : CharAt(s, i) \in Digits
    THEN pos + n ELSE -1

\* match(char c)
match(s, pos, c) == IF pos < Len(s) /\ CharAt(s, pos) = c THEN pos + 1 ELSE -1

millis(s, pos) ==
    IF match(s, pos, ".") # -1 THEN digits(s, pos + 1, 3) ELSE pos

timeZone(s, pos) ==
    IF match(s, pos, "-") # -1 \/ match(s, pos, "+") # -1
    THEN (IF digits(s, pos + 1, 2) # -1 /\ match(s, pos + 3, ":") # -1
          THEN digits(s, pos + 4, 2) ELSE -1)
    ELSE match(s, pos, "Z")

isoDate(s, pos) ==
    IF pos + 19 <= Len(s) /\ IsoCore(SubSeq(s, pos + 1, pos + 19))
    THEN (IF millis(s, pos + 19) = -1 THEN -1
          ELSE timeZone(s, millis(s, pos + 19)))
    ELSE -1

\* the loop of stringToken after the opening quote: quotedChar consumes a
\* character, and after a backslash the escaped character and one more
RECURSIVE StringBody(_, _)
StringBody(s, pos) ==
    IF match(s, pos, "\"") # -1 THEN pos + 1
    ELSE IF match(s, pos, "\\") # -1
    THEN (IF pos + 2 < Len(s) THEN StringBody(s, pos + 3) ELSE -1)
    ELSE IF pos < Len(s) THEN StringBody(s, pos + 1)
    ELSE -1

stringToken(s, pos) ==
    IF match(s, pos, "\"") = -1 THEN -1 ELSE StringBody(s, pos + 1)

lookaheadWhiteSpace(s, pos) == pos < Len(s) /\ CharAt(s, pos) = " "

charSet(s, pos, set) == IF pos < Len(s) /\ CharAt(s, pos) \in set THEN pos + 1 ELSE -1

Separators == {"{", "}", "[", "]", ",", ":"}

longTokenChar(s, pos) ==
    IF ~lookaheadWhiteSpace(s, pos) /\ charSet(s, pos, Separators) = -1 /\ pos < Len(s)
    THEN pos + 1 ELSE -1

RECURSIVE LongTokenEnd(_, _)
LongTokenEnd(s, pos) ==
    IF longTokenChar(s, pos) = -1 THEN pos ELSE LongTokenEnd(s, pos + 1)

longToken(s, pos) == IF longTokenChar(s, pos) = -1 THEN -1 ELSE LongTokenEnd(s, pos + 1)

RECURSIVE whiteSpaces(_, _)
whiteSpaces(s, pos) == IF lookaheadWhiteSpace(s, pos) THEN whiteSpaces(s, pos + 1) ELSE pos

\* isoDate() || stringToken() || charSet("{}[],:") || longToken().  A
\* stringToken that fails has moved pos to the end of the text, where the
\* later alternatives fail too.
jsonToken(s, pos) ==
    IF isoDate(s, pos) # -1 THEN isoDate(s, pos)
    ELSE IF match(s, pos, "\"") # -1 THEN stringToken(s, pos)
    ELSE IF charSet(s, pos, Separators) # -1 THEN pos + 1
    ELSE longToken(s, pos)

RECURSIVE TokenizeFrom(_, _)
TokenizeFrom(s, beforePos) ==
    LET pos == jsonToken(s, beforePos)
    IN  IF pos = -1 THEN <<>>
        ELSE <<SubSeq(s, beforePos + 1, pos)>> \o TokenizeFrom(s, whiteSpaces(s, pos))

\* tokenize: the first token is cut from position 0, leading white space
\* included, although the scan starts after it
tokenize(s) ==
    LET start == whiteSpaces(s, 0)
        pos == jsonToken(s, start)
    IN  IF pos = -1 THEN <<>>
        ELSE <<SubSeq(s, 1, pos)>> \o TokenizeFrom(s, whiteSpaces(s, pos))

(***************************************************************************)
(* JsonParser.unQuote and the parsing constructors it calls.  A call gives *)
(* the Java object or RuntimeException when anything is thrown.            *)
(***************************************************************************)
RuntimeException == [t |-> "RuntimeException", v |-> 0]

\* characters outside the printable set, each written as one element
ControlChar(c) ==
    CASE c = "b" -> "BS" [] c = "f" -> "FF" [] c = "n" -> "LF"
      [] c = "r" -> "CR" [] c = "t" -> "TAB"

\* the loop of unescapeJsonString over the text without its quotes
RECURSIVE Unescape(_, _)
Unescape(x, isEscaped) ==
    IF Len(x) = 0 THEN <<>>
    ELSE LET c == x[1]
         IN  IF isEscaped
             THEN (CASE c \in {"\"", "\\", "/"} -> <<c>> \o Unescape(Tail(x), FALSE)
                     [] c \in {"b", "f", "n", "r", "t"} ->
                            <<ControlChar(c)>> \o Unescape(Tail(x), FALSE)
                     [] c = "u" ->
                            IF Len(x) >= 5 /\ \A i \in 2..5 : IsHexDigit(x[i])
                            THEN <<"UNICODE">> \o Unescape(SubSeq(x, 6, Len(x)), FALSE)
                            ELSE <<"u">> \o Unescape(Tail(x), FALSE)
                     [] OTHER -> <<"\\", c>> \o Unescape(Tail(x), FALSE))
             ELSE IF c = "\\" THEN Unescape(Tail(x), TRUE)
             ELSE <<c>> \o Unescape(Tail(x), FALSE)

\* unescapeJsonString: <<>> when substring throws (the text is one quote)
unescapeJsonString(jsonString) ==
    IF StartsWith(jsonString, <<"\"">>) /\ EndsWith(jsonString, <<"\"">>)
    THEN (IF Len(jsonString) < 2 THEN <<>>
          ELSE <<Unescape(SubSeq(jsonString, 2, Len(jsonString) - 1), FALSE)>>)
    ELSE <<Unescape(jsonString, FALSE)>>

\* ISO_DATE_PATTERN.matcher(s).matches()
IsoDatePatternMatches(x) ==
    /\ Len(x) >= 20
    /\ IsoCore(SubSeq(x, 1, 19))
    /\ \E f \in 0..(Len(x) - 19) :
          /\ f # 1
          /\ f > 0 => (x[20] = "." /\ AllDigits(SubSeq(x, 21, 19 + f)))
          /\ IsoZone(SubSeq(x, 20 + f, Len(x)))

\* ISO_SIMPLE_DATE_FORMAT.parse(s) of a text the pattern matches: the format
\* wants the milliseconds; Dates other than the days of January 1970 are -1
DateParse(x) ==
    IF x[20] # "." THEN RuntimeException
    ELSE LET D == {d \in 0..30 : DateFormat(d) = x}
         IN  IF D = {} THEN JavaDate(-1) ELSE JavaDate(CHOOSE d \in D : TRUE)

\* Long.parseLong(s) of a text that starts with a digit
parseLong(x) == IF AllDigits(x) THEN JavaLong(StringToNat(x)) ELSE RuntimeException

\* Double.parseDouble and Float.parseFloat of a decimal literal that starts
\* with a digit: digits, a point, digits, an optional type suffix
IsFloatingLiteral(x) ==
    LET int == PrefixIn(x, Digits)
        rest == SubSeq(x, Len(int) + 1, Len(x))
        frac == IF Len(rest) > 0 THEN PrefixIn(Tail(rest), Digits) ELSE <<>>
        suffix == SubSeq(rest, Len(frac) + 2, Len(rest))
    IN  /\ Len(rest) > 0
        /\ rest[1] = "."
        /\ suffix = <<>> \/ (Len(suffix) = 1 /\ suffix[1] \in {"f", "F", "d", "D"})

parseDouble(x) ==
    IF IsFloatingLiteral(x) THEN JavaDouble(StringToNat(PrefixIn(x, Digits)))
    ELSE RuntimeException

FloatParseFloat(x) ==
    IF IsFloatingLiteral(x) THEN JavaFloat(StringToNat(PrefixIn(x, Digits)))
    ELSE RuntimeException

\* IdbClass.isValidName and IdbAttribute.isValidName
IdbClassIsValidName(x) ==
    /\ Len(x) > 0
    /\ x[1] \in UpperCase
    /\ \A i \in 2..Len(x) : x[i] \in LowerCase \cup UpperCase \cup Digits \cup {".", "_", "-"}

IdbAttributeIsValidName(x) ==
    /\ Len(x) > 0
    /\ x[1] \in LowerCase
    /\ \A i \in 2..Len(x) : x[i] \in LowerCase \cup UpperCase \cup Digits \cup {".", "_", "-"}

\* IdbByteArray.hexDigitParse: digits, 'A'..'Z' as c - 'A', else '_' (95)
hexDigitParse(c) ==
    IF c \in Digits THEN IndexOf(DigitSeq, c) - 1
    ELSE IF c \in UpperCase THEN IndexOf(UpperSeq, c) - 1
    ELSE 95

\* IdbByteArray.fromHexString: <<>> when charAt runs off the end, <<bytes>>
\* else; a byte is kept as its unsigned value
fromHexString(x) ==
    LET n == (Len(x) + 2) \div 3
        byteAt(j) == ((hexDigitParse(x[3 * j - 2]) * 16)
                      + (hexDigitParse(x[3 * j - 1]) % 16)) % 256
    IN  IF Len(x) % 3 = 1 THEN <<>>
        ELSE << [j \in 1..n |-> byteAt(j)] >>

\* new IdbByteArray(String) and new IdbByteString(String)
NewByteArray(cls, name, x) ==
    IF ~StartsWith(x, name \o <<"(">>) \/ ~EndsWith(x, <<")">>) THEN RuntimeException
    ELSE LET bytes == fromHexString(SubSeq(x, Len(name) + 2, Len(x) - 1))
         IN  IF bytes = <<>> THEN RuntimeException ELSE [t |-> cls, v |-> bytes[1]]

\* new IdbCharArray(String)
NewCharArray(x) ==
    IF ~StartsWith(x, <<"C", "h", "a", "r", "s", "(">>) \/ ~EndsWith(x, <<")">>)
    THEN RuntimeException
    ELSE LET chars == unescapeJsonString(SubSeq(x, 7, Len(x) - 1))
         IN  IF chars = <<>> THEN RuntimeException ELSE JavaIdbCharArray(chars[1])

\* the tail of unQuote, after the quoting has been removed from s
UnQuoteToken(x) ==
    IF x = <<"n", "u", "l", "l">> THEN JavaNull
    ELSE IF x = <<"t", "r", "u", "e">> THEN JavaBoolean(TRUE)
    ELSE IF x = <<"f", "a", "l", "s", "e">> THEN JavaBoolean(FALSE)
    ELSE IF x[1] \in Digits
    THEN (IF IsoDatePatternMatches(x) THEN DateParse(x)
          ELSE IF ~Includes(x, ".") THEN parseLong(x)
          ELSE IF EndsWith(x, <<"f">>) THEN FloatParseFloat(SubSeq(x, 1, Len(x) - 1))
          ELSE parseDouble(x))
    ELSE IF IdbClassIsValidName(x) THEN JavaIdbClass(x)
    ELSE IF IdbAttributeIsValidName(x) THEN JavaIdbAttribute(x)
    ELSE IF StartsWith(x, <<"B", "y", "t", "e", "s", "(">>)
    THEN NewByteArray("IdbByteArray", <<"B", "y", "t", "e", "s">>, x)
    ELSE IF StartsWith(x, <<"B", "y", "t", "e", "S", "t", "r", "i", "n", "g", "(">>)
    THEN NewByteArray("IdbByteString",
                      <<"B", "y", "t", "e", "S", "t", "r", "i", "n", "g">>, x)
    ELSE IF StartsWith(x, <<"C", "h", "a", "r", "s", "(">>) THEN NewCharArray(x)
    ELSE RuntimeException

\* JsonParser.unQuote of a token
JavaUnQuote(x, isUnderscoreQuoting) ==
    IF Len(x) = 0 THEN JavaString(<<>>)
    ELSE IF x = <<"n", "u", "l", "l">> THEN JavaNull
    ELSE IF x = <<"t", "r", "u", "e">> THEN JavaBoolean(TRUE)
    ELSE IF x = <<"f", "a", "l", "s", "e">> THEN JavaBoolean(FALSE)
    ELSE IF ~isUnderscoreQuoting
    THEN (IF StartsWith(x, <<"\"">>)
          THEN (IF unescapeJsonString(x) = <<>> THEN RuntimeException
                ELSE JavaString(unescapeJsonString(x)[1]))
          ELSE UnQuoteToken(x))
    ELSE IF unescapeJsonString(x) = <<>> THEN RuntimeException
    ELSE LET u == unescapeJsonString(x)[1]
         IN  IF Len(u) = 0 THEN JavaString(<<"\"", "\"">>)
             ELSE IF u[1] # "_"
             THEN (IF u = <<"n", "u", "l", "l">> THEN JavaNull ELSE JavaString(u))
             ELSE IF StartsWith(u, <<"_", "_">>) THEN JavaString(Tail(u))
             ELSE IF Len(u) = 1 THEN RuntimeException
             ELSE UnQuoteToken(Tail(u))

(***************************************************************************)
(* equals of the Java objects and of the JsonElements                      *)
(***************************************************************************)
\* v.equals(w): arrays are equal only to themselves, which a parsed value
\* never is
JavaEquals(v, w) ==
    /\ v.t = w.t
    /\ v.t \notin {"byte[]", "char[]"}
    /\ v.v = w.v

\* map.get(key) of a JsonObject: <<>> when the key is absent
MapGet(children, k) ==
    LET I == {i \in 1..Len(children) : JavaEquals(children[i].key, k)}
    IN  IF I = {} THEN <<>> ELSE <<children[CHOOSE i \in I : TRUE].child>>

\* map.put(key, value)
MapPut(children, k, child) ==
    LET I == {i \in 1..Len(children) : JavaEquals(children[i].key, k)}
    IN  IF I = {} THEN Append(children, [key |-> k, child |-> child])
        ELSE [children EXCEPT ![CHOOSE i \in I : TRUE].child = child]

RECURSIVE ElementEquals(_, _)
ElementEquals(e, other) ==
    CASE e.kind = "null"   -> other.kind = "null"
      [] e.kind = "Value"  -> other.kind = "Value" /\ JavaEquals(e.value, other.value)
      [] e.kind = "List"   ->
            /\ other.kind = "List"
            /\ Len(e.children) = Len(other.children)
            /\ \A i \in 1..Len(e.children) :
                  ElementEquals(e.children[i].child, other.children[i].child)
      [] e.kind = "Object" ->
            /\ other.kind = "Object"
            /\ Len(e.children) = Len(other.children)
            /\ \A i \in 1..Len(e.children) :
                  LET got == MapGet(other.children, e.children[i].key)
                  IN  got # <<>> /\ ElementEquals(e.children[i].child, got[1])

(***************************************************************************)
(* JsonParser.parse over the token list.  A call gives [ok, e, pos]: ok is *)
(* FALSE when it throws, e the element, pos the position after it.         *)
(***************************************************************************)
ParseFailed == [ok |-> FALSE, e |-> NullElement, pos |-> 0]
Parsed(e, pos) == [ok |-> TRUE, e |-> e, pos |-> pos]

\* match(String s) on the token list
matchToken(tokens, pos, x) == pos < Len(tokens) /\ tokens[pos + 1] = x

RECURSIVE parseAt(_, _, _)
RECURSIVE ParseObjectLoop(_, _, _, _)
RECURSIVE ParseListLoop(_, _, _, _)

ParseObjectLoop(tokens, pos, isUnderscoreQuoting, children) ==
    IF pos >= Len(tokens) THEN ParseFailed
    ELSE LET k == JavaUnQuote(tokens[pos + 1], isUnderscoreQuoting)
         IN  IF k.t \in {"RuntimeException", "null"} THEN ParseFailed
             ELSE IF ~matchToken(tokens, pos + 1, <<":">>) THEN ParseFailed
             ELSE LET value == parseAt(tokens, pos + 2, isUnderscoreQuoting)
                  IN  IF ~value.ok THEN ParseFailed
                      ELSE LET kids == MapPut(children, k, value.e)
                           IN  IF matchToken(tokens, value.pos, <<",">>)
                               THEN ParseObjectLoop(tokens, value.pos + 1,
                                                    isUnderscoreQuoting, kids)
                               ELSE IF matchToken(tokens, value.pos, <<"}">>)
                               THEN Parsed(JsonObject(kids), value.pos + 1)
                               ELSE ParseFailed

ParseListLoop(tokens, pos, isUnderscoreQuoting, children) ==
    LET o == parseAt(tokens, pos, isUnderscoreQuoting)
    IN  IF ~o.ok THEN ParseFailed
        ELSE LET kids == Append(children,
                                [key |-> JavaIdbIndex(Len(children)), child |-> o.e])
             IN  IF matchToken(tokens, o.pos, <<",">>)
                 THEN ParseListLoop(tokens, o.pos + 1, isUnderscoreQuoting, kids)
                 ELSE IF matchToken(tokens, o.pos, <<"]">>)
                 THEN Parsed(JsonList(kids), o.pos + 1)
                 ELSE ParseFailed

parseAt(tokens, pos, isUnderscoreQuoting) ==
    IF pos >= Len(tokens) THEN ParseFailed
    ELSE IF matchToken(tokens, pos, <<"{">>)
    THEN ParseObjectLoop(tokens, pos + 1, isUnderscoreQuoting, <<>>)
    ELSE IF matchToken(tokens, pos, <<"[">>)
    THEN ParseListLoop(tokens, pos + 1, isUnderscoreQuoting, <<>>)
    ELSE LET o == JavaUnQuote(tokens[pos + 1], isUnderscoreQuoting)
         IN  IF o.t = "RuntimeException" THEN ParseFailed
             ELSE Parsed(JsonValue(o), pos + 1)

\* new JsonParser(json, isUnderscoreQuoting).parse()
parse(json, isUnderscoreQuoting) == parseAt(tokenize(json), 0, isUnderscoreQuoting)

(***************************************************************************)
(* The Java round trip as a pipeline: an element is written in standard or *)
(* in extended form and the text is parsed in the same mode.               *)
(***************************************************************************)
\* a JsonList of the given children, keyed by their IdbIndex
ListOf(kids) == JsonList([i \in 1..Len(kids) |-> [key |-> JavaIdbIndex(i - 1), child |-> kids[i]]])

\* a JsonObject with one entry, and with two
ObjectOf(k, child) == JsonObject(<<[key |-> k, child |-> child]>>)
ObjectOf2(k1, child1, k2, child2) ==
    JsonObject(<<[key |-> k1, child |-> child1], [key |-> k2, child |-> child2]>>)

JsonScalars ==
    {JavaNull, JavaString(<<>>), JavaString(<<"h", "i">>), JavaString(<<"_", "a">>),
     JavaString(<<"a", " ", "b">>), JavaString(<<"a", "\"">>),
     JavaString(<<"n", "u", "l", "l">>), JavaString(<<"5">>),
     JavaBoolean(TRUE), JavaBoolean(FALSE),
     JavaLong(0), JavaLong(5), JavaLong(-5), JavaDouble(5), JavaDouble(-5), JavaFloat(1),
     JavaDate(0), JavaDate(14),
     JavaIdbClass(<<"A">>), JavaIdbClass(<<"A", "-", "b">>), JavaIdbAttribute(<<"a", "t", "t">>),
     JavaIdbIndex(0), JavaIdbByteArray(<<>>), JavaIdbByteArray(<<1, 2>>),
     JavaIdbByteArray(<<166, 99>>), JavaIdbByteString(<<1>>),
     JavaIdbCharArray(<<"a", "b">>), JavaIdbCharArray(<<"a", " ", "b">>),
     JavaBytes(<<1>>), JavaChars(<<"a">>)}

JsonKeys ==
    {JavaString(<<"h", "i">>), JavaString(<<"_", "a">>), JavaLong(5), JavaDouble(5),
     JavaBoolean(TRUE), JavaDate(0), JavaIdbClass(<<"A">>),
     JavaIdbAttribute(<<"a", "t", "t">>), JavaIdbByteArray(<<1, 2>>)}

JsonLeaves == {JsonValue(v) : v \in {JavaLong(5), JavaString(<<"h", "i">>), JavaNull}}
                  \cup {NullElement}

JsonTrees ==
    {JsonValue(v) : v \in JsonScalars}
    \cup {JsonObject(<<>>), JsonList(<<>>)}
    \cup {ObjectOf(k, c) : k \in JsonKeys, c \in JsonLeaves}
    \cup {ListOf(<<c>>) : c \in JsonLeaves}
    \cup {ListOf(<<JsonValue(JavaLong(1)), c>>) : c \in JsonLeaves}
    \cup {ObjectOf(JavaIdbClass(<<"A">>), ObjectOf(JavaIdbAttribute(<<"a", "t", "t">>), c)) :
             c \in JsonLeaves}
    \cup {ObjectOf(JavaIdbAttribute(<<"a", "t", "t">>), ListOf(<<c>>)) : c \in JsonLeaves}
    \cup {ObjectOf2(JavaIdbClass(<<"A">>), JsonValue(JavaLong(1)),
                    JavaIdbAttribute(<<"a", "t", "t">>), c) : c \in JsonLeaves}
    \cup {ListOf(<<JsonObject(<<>>)>>), ListOf(<<JsonList(<<>>)>>),
          ObjectOf(JavaString(<<"h", "i">>), JsonObject(<<>>)),
          ObjectOf(JavaString(<<"h", "i">>), JsonList(<<>>))}

JsonInit ==
    /\ SpaceIdle
    /\ arg1 \in JsonTrees
    /\ arg2 = <<>>
    /\ result = <<>>
    /\ pc = "tree"

ToStringCall ==
    /\ pc = "tree"
    /\ arg2' = toString(arg1)
    /\ pc' = "toString"
    /\ UNCHANGED <<arg1, result, spaceVars>>

ToStringAsExtendedFormatCall ==
    /\ pc = "tree"
    /\ arg2' = toStringAsExtendedFormat(arg1)
    /\ pc' = "toStringAsExtendedFormat"
    /\ UNCHANGED <<arg1, result, spaceVars>>

\* new JsonParser(text).parse()
ParseCall ==
    /\ pc = "toString"
    /\ result' = parse(arg2, TRUE)
    /\ pc' = "parse"
    /\ UNCHANGED <<arg1, arg2, spaceVars>>

\* new JsonParser(text, false).parse()
ParseExtendedCall ==
    /\ pc = "toStringAsExtendedFormat"
    /\ result' = parse(arg2, FALSE)
    /\ pc' = "parseExtended"
    /\ UNCHANGED <<arg1, arg2, spaceVars>>

JsonNext ==
    ToStringCall \/ ToStringAsExtendedFormatCall \/ ParseCall \/ ParseExtendedCall

SpecJson == JsonInit /\ [][JsonNext]_vars

(***************************************************************************)
(* JsonElement.insert, flattenToList and unflattenFromList.  A component   *)
(* handed to insert is a Java object [t, v] or a JsonValue wrapping one.   *)
(* A call that may throw gives [thrown, e], e being the element as the     *)
(* call left it.  The iteration order of a JsonObject is the order of its  *)
(* HashMap; the trees compared below do not depend on it.                  *)
(***************************************************************************)
\* o instanceof JsonValue
IsJsonValue(o) == "kind" \in DOMAIN o

\* o instanceof JsonValue ? (JsonValue)o : new JsonValue(o)
AsJsonValue(o) == IF IsJsonValue(o) THEN o ELSE JsonValue(o)

\* o instanceof IdbIndex
IsIdbIndex(o) == ~IsJsonValue(o) /\ o.t = "IdbIndex"

\* the index JsonList.get takes from its key
ListIndex(k) ==
    CASE k.t = "IdbIndex" -> k.v
      [] k.t \in {"Long", "Double", "Float"} -> k.v
      [] OTHER -> -1

\* JsonObject.get, JsonList.get and JsonValue.get; NullElement is null
ElementGet(e, k) ==
    CASE e.kind = "Object" ->
            LET got == MapGet(e.children, k)
            IN  IF got = <<>> THEN NullElement ELSE got[1]
      [] e.kind = "List" ->
            LET index == ListIndex(k)
            IN  IF index < 0 \/ index >= Len(e.children) THEN NullElement
                ELSE e.children[index + 1].child
      [] OTHER -> NullElement

\* JsonObject.put, JsonList.put and JsonValue.put
ElementPut(e, k, child) ==
    CASE e.kind = "Object" ->
            [thrown |-> FALSE, e |-> [e EXCEPT !.children = MapPut(@, k, child)]]
      [] e.kind = "List" ->
            IF k.t \notin {"Long", "IdbIndex"} THEN [thrown |-> TRUE, e |-> e]
            ELSE IF k.v < 0 \/ k.v > Len(e.children) THEN [thrown |-> TRUE, e |-> e]
            ELSE IF k.v < Len(e.children)
                THEN [thrown |-> FALSE,
                      e |-> [e EXCEPT !.children[k.v + 1].child = child]]
            ELSE [thrown |-> FALSE,
                  e |-> [e EXCEPT !.children =
                            Append(@, [key |-> JavaIdbIndex(k.v), child |-> child])]]
      [] OTHER -> [thrown |-> TRUE, e |-> e]

\* the loop of insert from component i on, outer being the node the loop
\* is at; the result is outer as the rest of the loop leaves it
RECURSIVE InsertFrom(_, _, _, _)
InsertFrom(outer, item, i, isCompactTips) ==
    IF i > Len(item) THEN [thrown |-> FALSE, e |-> outer]
    ELSE LET jsonValue == AsJsonValue(item[i])
             inner == ElementGet(outer, jsonValue.value)
             created == IF IsIdbIndex(item[i + 1]) THEN JsonList(<<>>)
                        ELSE JsonObject(<<>>)
             \* outer = inner: the later puts go into the node just put
             Descend(holder, rest) ==
                 [thrown |-> rest.thrown,
                  e |-> ElementPut(holder, jsonValue.value, rest.e).e]
             Put(p) ==
                 IF p.thrown THEN p
                 ELSE Descend(p.e, InsertFrom(created, item, i + 1, isCompactTips))
         IN  IF inner.kind # "null"
                 THEN InsertFrom(outer, item, i + 1, isCompactTips)
             ELSE IF isCompactTips /\ i = Len(item) - 1
                 THEN ElementPut(outer, jsonValue.value, AsJsonValue(item[Len(item)]))
             ELSE IF i = Len(item)
                 THEN ElementPut(outer, jsonValue.value, NullElement)
             ELSE Put(ElementPut(outer, jsonValue.value, created))

insert(e, isCompactTips, item) == InsertFrom(e, item, 1, isCompactTips)

\* flattenToList: the list of suffixes, every component a JsonValue
RECURSIVE flattenToList(_)
RECURSIVE FlattenKeys(_, _)
FlattenKeys(e, n) ==
    IF n > Len(e.children) THEN <<>>
    ELSE LET k == JsonValue(e.children[n].key)
             v == ElementGet(e, k.value)
             Concatenated(nestedSuffixes) ==
                 [j \in 1..Len(nestedSuffixes) |-> <<k>> \o nestedSuffixes[j]]
         IN  (IF v.kind = "null" THEN << <<k>> >>
              ELSE Concatenated(flattenToList(v)))
             \o FlattenKeys(e, n + 1)

flattenToList(e) ==
    IF e.kind = "Value" THEN << <<e>> >> ELSE FlattenKeys(e, 1)

RECURSIVE InsertAll(_, _, _, _)
InsertAll(e, list, n, isCompactingTips) ==
    IF n > Len(list) THEN [thrown |-> FALSE, e |-> e]
    ELSE LET Inserted(r) ==
                 IF r.thrown THEN r
                 ELSE InsertAll(r.e, list, n + 1, isCompactingTips)
         IN  Inserted(insert(e, isCompactingTips, list[n]))

unflattenFromList(isCompactingTips, list) ==
    IF Len(list) > 0 /\ Len(list[1]) = 0
        THEN [thrown |-> TRUE, e |-> NullElement]
    ELSE InsertAll(IF Len(list) > 0 /\ IsIdbIndex(list[1][1]) THEN JsonList(<<>>)
                   ELSE JsonObject(<<>>),
                   list, 1, isCompactingTips)

(***************************************************************************)
(* Building a tree by insert calls, then flattening and unflattening it,   *)
(* as testJson, testJsonList and testFlatten do.  arg1 is the tree, arg2   *)
(* the last insert [isCompactTips, item, pre, thrown, failed] with pre the *)
(* tree before it and failed set once an insert has thrown, result the     *)
(* flattened list and then the unflattened tree.                           *)
(***************************************************************************)
MaxInserts == 3

Att == JavaIdbAttribute(<<"a", "t", "t">>)
Hi == JavaString(<<"h", "i">>)

\* the Items the client inserts: raw components and JsonValues
InsertItems ==
    << <<Att, JavaLong(5), Hi>>,
       <<Att, JavaLong(5), JavaLong(7)>>,
       <<Att, JavaIdbIndex(0), Hi>>,
       <<Att, JsonValue(JavaIdbIndex(0)), Hi>>,
       <<Att, Hi>>,
       <<Att>>,
       <<JavaIdbClass(<<"E", "c">>), JavaLong(5), JavaDouble(5)>>,
       <<JavaIdbIndex(0), Hi>>,
       <<JavaIdbIndex(1), JavaLong(7)>>,
       <<Hi>> >>

TreeInit ==
    /\ SpaceIdle
    /\ arg1 \in {JsonObject(<<>>), JsonList(<<>>)}
    /\ \E b \in BOOLEAN :
           arg2 = [isCompactTips |-> b, item |-> <<>>, pre |-> arg1,
                   thrown |-> FALSE, failed |-> FALSE]
    /\ result = <<>>
    /\ pc = "new"

\* arg1.insert(isCompactTips, InsertItems[k])
InsertCall(k) ==
    LET item == InsertItems[k]
        Returns(r) ==
            /\ arg1' = r.e
            /\ arg2' = [arg2 EXCEPT !.item = item, !.pre = arg1,
                                    !.thrown = r.thrown, !.failed = @ \/ r.thrown]
    IN  /\ pc \in {"new", "insert"}
        /\ calls < MaxInserts
        /\ Returns(insert(arg1, arg2.isCompactTips, item))
        /\ calls' = calls + 1
        /\ pc' = "insert"
        /\ UNCHANGED <<root, itemCount, lastOp, pre, items, result>>

\* items = arg1.flattenToList()
FlattenToListCall ==
    /\ pc \in {"new", "insert"}
    /\ result' = [items |-> flattenToList(arg1)]
    /\ pc' = "flattenToList"
    /\ UNCHANGED <<arg1, arg2, spaceVars>>

\* JsonElement.unflattenFromList(isCompactTips, items)
UnflattenFromListCall ==
    LET Returns(r) ==
            result' = [items |-> result.items, thrown |-> r.thrown, e |-> r.e]
    IN  /\ pc = "flattenToList"
        /\ Returns(unflattenFromList(arg2.isCompactTips, result.items))
        /\ pc' = "unflattenFromList"
        /\ UNCHANGED <<arg1, arg2, spaceVars>>

TreeNext ==
    \/ \E k \in 1..Len(InsertItems) : InsertCall(k)
    \/ FlattenToListCall
    \/ UnflattenFromListCall

SpecTree == TreeInit /\ [][TreeNext]_vars

(***************************************************************************)
(* An OrderedMap driven by set, delete, get, has and size calls over raw   *)
(* keys of one kind.  arg1 is the map, arg2 the call with the keys in use  *)
(* and, for every key, the value of the most recent set if no delete       *)
(* followed it.                                                            *)
(***************************************************************************)
\* OrderedMap.get, given the result s of its _binarySearch(key)
OrderedMapGet(node, s) == IF s.found THEN node.entries[s.index + 1].value ELSE JsNull

\* OrderedMap.has, given the result s of its _binarySearch(key)
OrderedMapHas(s) == s.found

\* OrderedMap.size
OrderedMapSize(node) == Len(node.entries)

MapKeySets ==
    { {JsString(<<"a">>), JsString(<<"b">>), JsString(<<"A">>), JsString(<<"a", "b">>),
       JsString(<<"a", "SHY">>)},
      {JsNumber(2), JsNumber(10), JsNumber(-5), JsNumber(0)} }

MapValues == {JsNumber(1), JsNumber(2)}

MapInit ==
    /\ SpaceIdle
    /\ arg1 = NewOrderedMap
    /\ \E K \in MapKeySets :
           arg2 = [keys |-> K, op |-> "new", key |-> JsNull, was |-> FALSE,
                   last |-> [k \in K |-> <<>>]]
    /\ result = JsNull
    /\ pc = "map"

MapSetCall(k, value) ==
    /\ pc = "map"
    /\ k \in arg2.keys
    /\ arg1' = OrderedMapSet(arg1, binarySearch(arg1, k), k, value)
    /\ arg2' = [arg2 EXCEPT !.op = "set", !.key = k, !.was = arg2.last[k] # <<>>,
                            !.last[k] = <<value>>]
    /\ result' = JsNull
    /\ UNCHANGED <<pc, spaceVars>>

MapDeleteCall(k) ==
    /\ pc = "map"
    /\ k \in arg2.keys
    /\ arg1' = OrderedMapDelete(arg1, binarySearch(arg1, k))
    /\ arg2' = [arg2 EXCEPT !.op = "delete", !.key = k, !.was = arg2.last[k] # <<>>,
                            !.last[k] = <<>>]
    /\ result' = JsBoolean(binarySearch(arg1, k).found)
    /\ UNCHANGED <<pc, spaceVars>>

MapGetCall(k) ==
    /\ pc = "map"
    /\ k \in arg2.keys
    /\ arg2' = [arg2 EXCEPT !.op = "get", !.key = k, !.was = arg2.last[k] # <<>>]
    /\ result' = OrderedMapGet(arg1, binarySearch(arg1, k))
    /\ UNCHANGED <<arg1, pc, spaceVars>>

MapHasCall(k) ==
    /\ pc = "map"
    /\ k \in arg2.keys
    /\ arg2' = [arg2 EXCEPT !.op = "has", !.key = k, !.was = arg2.last[k] # <<>>]
    /\ result' = JsBoolean(OrderedMapHas(binarySearch(arg1, k)))
    /\ UNCHANGED <<arg1, pc, spaceVars>>

MapSizeCall ==
    /\ pc = "map"
    /\ arg2' = [arg2 EXCEPT !.op = "size", !.key = JsNull, !.was = FALSE]
    /\ result' = JsNumber(OrderedMapSize(arg1))
    /\ UNCHANGED <<arg1, pc, spaceVars>>

MapNext ==
    \/ \E k \in UNION MapKeySets, value \in MapValues : MapSetCall(k, value)
    \/ \E k \in UNION MapKeySets : MapDeleteCall(k) \/ MapGetCall(k) \/ MapHasCall(k)
    \/ MapSizeCall

SpecMap == MapInit /\ [][MapNext]_vars

(***************************************************************************)
(* A JsonList driven by put, add and iterator calls.  A call gives thrown, *)
(* the list after it and what it returns.                                  *)
(***************************************************************************)
MaxListLen == 3

\* JsonList.put without the test of the index against the size
ListPutUnchecked(e, k, value) ==
    IF k.t \notin {"Long", "IdbIndex"}
    THEN [thrown |-> TRUE, e |-> e, returned |-> NullElement]
    ELSE IF k.v >= 0 /\ k.v < Len(e.children)
    THEN [thrown |-> FALSE,
          e |-> [e EXCEPT !.children[k.v + 1].child = value],
          returned |-> e.children[k.v + 1].child]
    ELSE [thrown |-> FALSE,
          e |-> [e EXCEPT !.children =
                    Append(@, [key |-> JavaIdbIndex(k.v), child |-> value])],
          returned |-> NullElement]

\* JsonList.put(key, value), k being key.value()
ListPut(e, k, value) ==
    IF k.t \notin {"Long", "IdbIndex"}
    THEN [thrown |-> TRUE, e |-> e, returned |-> NullElement]
    ELSE IF k.v < 0 \/ k.v > Len(e.children)
    THEN [thrown |-> TRUE, e |-> e, returned |-> NullElement]
    ELSE IF k.v < Len(e.children)
    THEN [thrown |-> FALSE,
          e |-> [e EXCEPT !.children[k.v + 1].child = value],
          returned |-> e.children[k.v + 1].child]
    ELSE [thrown |-> FALSE,
          e |-> [e EXCEPT !.children =
                    Append(@, [key |-> JavaIdbIndex(Len(e.children)), child |-> value])],
          returned |-> NullElement]

\* JsonList.add(e) of a JsonElement
ListAdd(e, value) ==
    [e EXCEPT !.children =
        Append(@, [key |-> JavaIdbIndex(Len(e.children)), child |-> value])]

\* the keys JsonList.iterator() yields
ListIterator(e) == [pos \in 1..Len(e.children) |-> JsonValue(JavaIdbIndex(pos - 1))]

ListKeys ==
    {JavaLong(n) : n \in (-1)..(MaxListLen + 1)}
        \cup {JavaIdbIndex(n) : n \in 0..(MaxListLen + 1)}
        \cup {JavaString(<<"0">>), JavaDouble(0), JavaNull}

ListValues == {JsonValue(JavaLong(7)), JsonValue(JavaString(<<"h", "i">>)), JsonObject(<<>>)}

ListInit ==
    /\ SpaceIdle
    /\ arg1 = JsonList(<<>>)
    /\ arg2 = [op |-> "new", key |-> JavaNull, value |-> NullElement, pre |-> JsonList(<<>>)]
    /\ result = [thrown |-> FALSE, returned |-> NullElement, keys |-> <<>>]
    /\ pc = "list"

ListPutCall(k, value) ==
    LET Returns(r) ==
            /\ Len(r.e.children) <= MaxListLen
            /\ arg1' = r.e
            /\ result' = [thrown |-> r.thrown, returned |-> r.returned, keys |-> <<>>]
    IN  /\ pc = "list"
        /\ Returns(ListPut(arg1, k, value))
        /\ arg2' = [op |-> "put", key |-> k, value |-> value, pre |-> arg1]
        /\ UNCHANGED <<pc, spaceVars>>

ListAddCall(value) ==
    /\ pc = "list"
    /\ Len(arg1.children) < MaxListLen
    /\ arg1' = ListAdd(arg1, value)
    /\ arg2' = [op |-> "add", key |-> JavaNull, value |-> value, pre |-> arg1]
    /\ result' = [thrown |-> FALSE, returned |-> NullElement, keys |-> <<>>]
    /\ UNCHANGED <<pc, spaceVars>>

ListIteratorCall ==
    /\ pc = "list"
    /\ arg2' = [op |-> "iterator", key |-> JavaNull, value |-> NullElement, pre |-> arg1]
    /\ result' = [thrown |-> FALSE, returned |-> NullElement, keys |-> ListIterator(arg1)]
    /\ UNCHANGED <<arg1, pc, spaceVars>>

ListNext ==
    \/ \E k \in ListKeys, value \in ListValues : ListPutCall(k, value)
    \/ \E value \in ListValues : ListAddCall(value)
    \/ ListIteratorCall

SpecList == ListInit /\ [][ListNext]_vars

(***************************************************************************)
(* Two threads, each with its own parser and tree, that quote or unquote a *)
(* Date.  ISO_SIMPLE_DATE_FORMAT is one static SimpleDateFormat, and a     *)
(* SimpleDateFormat keeps one Calendar: format sets it to the Date and     *)
(* then reads the fields from it, parse establishes the parsed fields in   *)
(* it and then takes its time.  Nothing synchronizes the calls, so the     *)
(* steps of the two threads interleave freely.  arg1 is the call of each   *)
(* thread, arg2 the shared Calendar, result and pc are per thread.         *)
(***************************************************************************)
Threads == {1, 2}
ThreadDates == {0, 14, 30}

ThreadCalls == [op : {"qKey", "unQuote"}, date : ThreadDates]

\* the call run on its own: qKeyUnderscoreQuoting of the Date, or unQuote of
\* the token of the Date
Alone(call) ==
    IF call.op = "qKey" THEN qKeyUnderscoreQuoting(JavaDate(call.date))
    ELSE JavaUnQuote(<<"_">> \o DateFormat(call.date), TRUE)

ThreadsInit ==
    /\ SpaceIdle
    /\ arg1 \in [Threads -> ThreadCalls]
    /\ arg2 = 0
    /\ result = [t \in Threads |-> <<>>]
    /\ pc = [t \in Threads |-> "start"]

\* qKeyUnderscoreQuoting, first half: format calls calendar.setTime(date)
FormatSetTime(t) ==
    /\ pc[t] = "start"
    /\ arg1[t].op = "qKey"
    /\ arg2' = arg1[t].date
    /\ pc' = [pc EXCEPT ![t] = "format"]
    /\ UNCHANGED <<arg1, result, spaceVars>>

\* second half: the text is made from the fields of the Calendar
FormatFields(t) ==
    /\ pc[t] = "format"
    /\ result' = [result EXCEPT ![t] = <<"_">> \o DateFormat(arg2)]
    /\ pc' = [pc EXCEPT ![t] = "done"]
    /\ UNCHANGED <<arg1, arg2, spaceVars>>

\* unQuote, first half: parse establishes the fields it read in the Calendar
ParseEstablish(t) ==
    /\ pc[t] = "start"
    /\ arg1[t].op = "unQuote"
    /\ arg2' = DateParse(DateFormat(arg1[t].date)).v
    /\ pc' = [pc EXCEPT ![t] = "parse"]
    /\ UNCHANGED <<arg1, result, spaceVars>>

\* second half: the Date is the time of the Calendar
ParseGetTime(t) ==
    /\ pc[t] = "parse"
    /\ result' = [result EXCEPT ![t] = JavaDate(arg2)]
    /\ pc' = [pc EXCEPT ![t] = "done"]
    /\ UNCHANGED <<arg1, arg2, spaceVars>>

ThreadsNext ==
    \E t \in Threads :
        FormatSetTime(t) \/ FormatFields(t) \/ ParseEstablish(t) \/ ParseGetTime(t)

SpecThreads == ThreadsInit /\ [][ThreadsNext]_vars

(***************************************************************************)
(* The byte array tokens: a token _Bytes(body) or _ByteString(body) is     *)
(* unquoted by idb.unQuote and by JsonParser.unQuote.                      *)
(***************************************************************************)
MaxBodyLen == 3
HexAlphabet == {"A", "6", "a", "G", "_"}

RECURSIVE BodiesOfLen(_)
BodiesOfLen(n) ==
    IF n = 0 THEN {<<>>}
    ELSE {<<c>> \o b : c \in HexAlphabet, b \in BodiesOfLen(n - 1)}

\* every body of at most MaxBodyLen characters and some of two bytes
HexBodies ==
    UNION {BodiesOfLen(n) : n \in 0..MaxBodyLen}
        \cup {<<"A", "6", "_", "9", "9">>, <<"a", "6", "_", "9", "9">>,
              <<"A", "6", "-", "9", "9">>, <<"A", "6", "9", "9">>,
              <<"A", "6", "_", "9">>, <<"A", "6", "_", "9", "9", "_">>,
              <<"0", "1", "_", "F", "F">>, <<"1", "0", "_", "f", "F">>}

ByteArrayNames ==
    {<<"B", "y", "t", "e", "s">>, <<"B", "y", "t", "e", "S", "t", "r", "i", "n", "g">>}

HexInit ==
    /\ SpaceIdle
    /\ arg1 \in HexBodies
    /\ arg2 = <<>>
    /\ result = <<>>
    /\ pc = "body"

\* idb.unQuote('_' + name + '(' + body + ')')
UnQuoteBytesCall(name) ==
    /\ pc = "body"
    /\ arg2' = <<"_">> \o name \o <<"(">> \o arg1 \o <<")">>
    /\ result' = unQuote(arg2')
    /\ pc' = "unQuote"
    /\ UNCHANGED <<arg1, spaceVars>>

\* JsonParser.unQuote("_" + name + "(" + body + ")", true)
JavaUnQuoteBytesCall(name) ==
    /\ pc = "body"
    /\ arg2' = <<"_">> \o name \o <<"(">> \o arg1 \o <<")">>
    /\ result' = JavaUnQuote(arg2', TRUE)
    /\ pc' = "JavaUnQuote"
    /\ UNCHANGED <<arg1, spaceVars>>

HexNext ==
    \/ \E name \in ByteArrayNames : UnQuoteBytesCall(name)
    \/ \E name \in ByteArrayNames : JavaUnQuoteBytesCall(name)

SpecHex == HexInit /\ [][HexNext]_vars

(***************************************************************************)
(* The parser on input texts: new JsonParser(json, isUnderscoreQuoting)    *)
(* tokenizes the text in the constructor and parse() reads the tokens.     *)
(***************************************************************************)
Q == "\""

\* texts of one complete value
TextCores ==
    { <<"{", "}">>,
      <<"[", "]">>,
      <<"{", Q, "a", Q, ":", "{", "}", "}">>,
      <<"[", "[", "]", "]">>,
      <<"{", Q, "a", Q, ":", "[", "]", "}">>,
      <<"[", "{", "}", "]">>,
      <<Q, "a", Q>>,
      <<"{", Q, "a", Q, ":", Q, "b", Q, "}">>,
      <<"[", Q, "a", Q, ",", Q, "b", Q, "]">>,
      <<"[", Q, "a", " ", "b", Q, "]">>,
      <<"{", " ", Q, "a", Q, " ", ":", " ", Q, "b", Q, " ", "}">>,
      <<"{", Q, "a", Q, ":", "[", Q, "b", Q, "]", ",", Q, "c", Q, ":", Q, "d", Q, "}">>,
      <<"t", "r", "u", "e">>,
      <<"5">>,
      <<"5", ".", "0">>,
      <<"[", "5", ".", "0", "]">> }

\* a value, and the value with white space before or after it, with a second
\* value, an unterminated string or a closing bracket after it
Texts ==
    TextCores
        \cup {<<" ">> \o c : c \in TextCores}
        \cup {c \o <<" ">> : c \in TextCores}
        \cup {c \o <<" ", Q, "x", Q>> : c \in TextCores}
        \cup {c \o <<" ", Q, "x">> : c \in TextCores}
        \cup {c \o <<"]">> : c \in TextCores}

TextInit ==
    /\ SpaceIdle
    /\ arg1 \in Texts
    /\ arg2 = <<>>
    /\ result = <<>>
    /\ pc = "text"

\* new JsonParser(json, isUnderscoreQuoting)
NewJsonParserCall(isUnderscoreQuoting) ==
    /\ pc = "text"
    /\ arg2' = [isUnderscoreQuoting |-> isUnderscoreQuoting,
                jsonTokens |-> tokenize(arg1)]
    /\ pc' = "JsonParser"
    /\ UNCHANGED <<arg1, result, spaceVars>>

\* parse() of the parser just constructed
ParseTokensCall ==
    /\ pc = "JsonParser"
    /\ result' = parseAt(arg2.jsonTokens, 0, arg2.isUnderscoreQuoting)
    /\ pc' = "parse"
    /\ UNCHANGED <<arg1, arg2, spaceVars>>

TextNext ==
    \/ \E isUnderscoreQuoting \in BOOLEAN : NewJsonParserCall(isUnderscoreQuoting)
    \/ ParseTokensCall

SpecText == TextInit /\ [][TextNext]_vars


(***************************************************************************)
(* The Component total order the properties refer to: type rank first,     *)
(* then the value within a rank.                                           *)
(***************************************************************************)
KindOrder == <<"Class", "Attribute", "String", "Boolean", "Float", "Double",
               "Long", "Date", "Bytes", "ByteString", "Chars", "Index">>

Kind(c) ==
    CASE c.t = "string" -> "String"
      [] c.t \in {"boolean", "BooleanValue"} -> "Boolean"
      [] c.t = "number" -> "Double"
      [] c.t = "JsDate" -> "Date"
      [] OTHER -> c.t

Rank(c) == IndexOf(KindOrder, Kind(c))

ValueOrder(a, b) ==
    CASE Kind(a) \in {"Float", "Double", "Long", "Date", "Index"} -> Sign(a.v - b.v)
      [] Kind(a) \in {"Bytes", "ByteString"} -> LexCompare(a.v, b.v)
      [] Kind(a) = "Boolean" -> IF a.v = b.v THEN 0 ELSE IF a.v THEN 1 ELSE -1
      [] OTHER -> localeCompare(a.v, b.v)

ComponentOrder(a, b) ==
    IF Rank(a) # Rank(b) THEN Sign(Rank(a) - Rank(b)) ELSE ValueOrder(a, b)

\* the Item i is stored: some leaf holds an Item with i's component sequence
IsStored(space, i) ==
    LET stored == getItems(space)
    IN  \E k \in 1..Len(stored) : stored[k] = i

\* the node reached from node by following the components of item with get
RECURSIVE NodeAt(_, _, _)
NodeAt(node, item, i) ==
    IF i > Len(item) THEN <<node>>
    ELSE LET s == binarySearch(node, item[i])
         IN  IF s.thrown \/ ~s.found THEN <<>>
             ELSE NodeAt(node.entries[s.index + 1].value, item, i + 1)

LeafHolds(space, item) ==
    LET n == NodeAt(space.root, item, 1)
    IN  Len(n) = 1 /\ n[1].isLeafNode /\ n[1].item = <<item>>

RECURSIVE KeysAscending(_)
KeysAscending(node) ==
    /\ \A k \in 1..(Len(node.entries) - 1) :
           ComponentOrder(node.entries[k].key, node.entries[k + 1].key) < 0
    /\ \A k \in 1..Len(node.entries) : KeysAscending(node.entries[k].value)

RECURSIVE NoEmptyNonLeaf(_)
NoEmptyNonLeaf(node) ==
    \A k \in 1..Len(node.entries) :
        LET child == node.entries[k].value
        IN  (child.isLeafNode \/ ~isEmpty(child)) /\ NoEmptyNonLeaf(child)

\* the value of component i of an Item handed to insert
KeyOf(item, i) == AsJsonValue(item[i]).value

\* map.containsKey / index within the list
HasKey(e, k) ==
    CASE e.kind = "Object" -> MapGet(e.children, k) # <<>>
      [] e.kind = "List" -> ListIndex(k) >= 0 /\ ListIndex(k) < Len(e.children)
      [] OTHER -> FALSE

\* the node reached from e by get(item[i]), ..., get(item[m])
RECURSIVE Follow(_, _, _, _)
Follow(e, item, i, m) ==
    IF i > m THEN e ELSE Follow(ElementGet(e, KeyOf(item, i)), item, i + 1, m)

\* p is a proper prefix of q
IsProperPrefix(p, q) == Len(p) < Len(q) /\ SubSeq(q, 1, Len(p)) = p

\* no stored Item is a proper prefix of another stored Item
NoProperPrefix(stored) ==
    \A j, k \in 1..Len(stored) : ~IsProperPrefix(stored[j], stored[k])

\* the same kind and value at every component position
SameItem(a, b) ==
    /\ Len(a) = Len(b)
    /\ \A i \in 1..Len(a) : Kind(a[i]) = Kind(b[i]) /\ a[i].v = b[i].v

\* both spaces store exactly the same Items
SameItems(stored, other) ==
    /\ \A j \in 1..Len(stored) : \E k \in 1..Len(other) : SameItem(stored[j], other[k])
    /\ \A k \in 1..Len(other) : \E j \in 1..Len(stored) : SameItem(stored[j], other[k])

\* the nested-key path of the components from i on is present in obj
RECURSIVE HasKeyPath(_, _, _)
HasKeyPath(obj, components, i) ==
    IF i > Len(components) THEN TRUE
    ELSE /\ ~obj.isNull
         /\ GetProp(obj, key(components[i])) # <<>>
         /\ HasKeyPath(GetProp(obj, key(components[i]))[1], components, i + 1)

\* the grammar value := object | list | scalar on a token list: the position
\* after the value that starts at pos, or -1
IsScalarToken(tokens, pos) == pos < Len(tokens) /\ tokens[pos + 1] \notin {<<c>> : c \in Separators}

RECURSIVE GrammarValue(_, _)
RECURSIVE GrammarPairs(_, _)
RECURSIVE GrammarValues(_, _)
GrammarPairs(tokens, pos) ==
    IF ~(IsScalarToken(tokens, pos) /\ matchToken(tokens, pos + 1, <<":">>)) THEN -1
    ELSE LET After(end) ==
                 IF end = -1 THEN -1
                 ELSE IF matchToken(tokens, end, <<",">>) THEN GrammarPairs(tokens, end + 1)
                 ELSE IF matchToken(tokens, end, <<"}">>) THEN end + 1
                 ELSE -1
         IN  After(GrammarValue(tokens, pos + 2))

GrammarValues(tokens, pos) ==
    LET After(end) ==
            IF end = -1 THEN -1
            ELSE IF matchToken(tokens, end, <<",">>) THEN GrammarValues(tokens, end + 1)
            ELSE IF matchToken(tokens, end, <<"]">>) THEN end + 1
            ELSE -1
    IN  After(GrammarValue(tokens, pos))

GrammarValue(tokens, pos) ==
    IF matchToken(tokens, pos, <<"{">>)
    THEN (IF matchToken(tokens, pos + 1, <<"}">>) THEN pos + 2
          ELSE GrammarPairs(tokens, pos + 1))
    ELSE IF matchToken(tokens, pos, <<"[">>)
    THEN (IF matchToken(tokens, pos + 1, <<"]">>) THEN pos + 2
          ELSE GrammarValues(tokens, pos + 1))
    ELSE IF IsScalarToken(tokens, pos) THEN pos + 1
    ELSE -1

\* the token list is exactly one value of the grammar
IsGrammarValue(tokens) == GrammarValue(tokens, 0) = Len(tokens)

\* the characters of a text that are not white space
NonWhite(s) == SelectSeq(s, LAMBDA c : c # " ")

RECURSIVE ConcatAll(_)
ConcatAll(seqs) == IF seqs = <<>> THEN <<>> ELSE Head(seqs) \o ConcatAll(Tail(seqs))

\* the text ends inside a double-quoted string
RECURSIVE EndsInsideString(_, _, _)
EndsInsideString(s, pos, inside) ==
    IF pos >= Len(s) THEN inside
    ELSE IF ~inside THEN EndsInsideString(s, pos + 1, CharAt(s, pos) = Q)
    ELSE IF CharAt(s, pos) = "\\" THEN EndsInsideString(s, pos + 2, TRUE)
    ELSE EndsInsideString(s, pos + 1, CharAt(s, pos) # Q)

\* the text without its leading white space
TrimLeft(s) == SubSeq(s, whiteSpaces(s, 0) + 1, Len(s))

\* a bare JSON number: digits with an optional point and digits
IsBareNumber(x) ==
    /\ Len(x) > 0
    /\ x[1] \in Digits
    /\ AllDigits(x) \/ (IsFloatingLiteral(x) /\ x[Len(x)] \in Digits)

\* the Double a bare number denotes
BareNumberValue(x) == JavaDouble(StringToNat(PrefixIn(x, Digits)))

\* a body of two-character upper-case hexadecimal pairs joined by single
\* underscores, or the empty body
IsHexBody(s) ==
    \/ s = <<>>
    \/ /\ Len(s) % 3 = 2
       /\ \A i \in 1..Len(s) :
              IF i % 3 = 0 THEN s[i] = "_" ELSE s[i] \in Range(hexChars)

\* the bytes the pairs of such a body denote
HexBodyBytes(s) ==
    [k \in 1..((Len(s) + 1) \div 3) |->
        16 * (IndexOf(hexChars, s[3 * k - 2]) - 1) + (IndexOf(hexChars, s[3 * k - 1]) - 1)]

\* the number of nodes marked leaf in the trie below and including node
RECURSIVE LeafCount(_)
RECURSIVE LeafCountFrom(_, _)
LeafCountFrom(entries, k) ==
    IF k > Len(entries) THEN 0
    ELSE LeafCount(entries[k].value) + LeafCountFrom(entries, k + 1)
LeafCount(node) == (IF node.isLeafNode THEN 1 ELSE 0) + LeafCountFrom(node.entries, 1)

\* every node reached by path is a leaf exactly when it has an item, and the
\* item has the keys of the path as its components
RECURSIVE NodesHoldTheirPath(_, _)
NodesHoldTheirPath(node, path) ==
    /\ node.isLeafNode <=> node.item # <<>>
    /\ node.item # <<>> => node.item[1] = path
    /\ \A k \in 1..Len(node.entries) :
           NodesHoldTheirPath(node.entries[k].value, Append(path, node.entries[k].key))

\* a sequence of Items strictly ascending by Item.compareTo
ItemsAscending(stored) ==
    \A k \in 1..(Len(stored) - 1) :
        LET c == ItemCompareTo(stored[k], stored[k + 1])
        IN  ~c.thrown /\ c.r < 0

(***************************************************************************)
(* Properties                                                              *)
(***************************************************************************)

\* C4: addItem(i) of a non-empty Item i that is not stored, followed at once
\* by removeItem(i), leaves the trie and count() exactly as they were before
\* the addItem, with no empty non-leaf node left behind.
C4_AddThenRemoveRestores ==
    [][(/\ lastOp.kind = "add" /\ lastOp.item # <<>>
        /\ ~IsStored(pre, lastOp.item)
        /\ lastOp'.kind = "remove" /\ lastOp'.item = lastOp.item)
       => (root' = pre.root /\ itemCount' = pre.itemCount /\ NoEmptyNonLeaf(root'))]_vars

\* C5: a second addItem(i) right after addItem(i) changes neither count()
\* nor any node, leaf flag or stored item.
C5_SecondAddChangesNothing ==
    (lastOp.kind = "add" /\ lastOp.again)
        => (root = pre.root /\ itemCount = pre.itemCount)

\* C6: addItem(i) of a non-empty Item i whose component sequence is not
\* already stored increases count() by exactly 1 and makes the node at the
\* end of i's path a leaf holding i.
C6_AddOfNewItemStoresIt ==
    (lastOp.kind = "add" /\ lastOp.item # <<>> /\ ~IsStored(pre, lastOp.item))
        => (itemCount = pre.itemCount + 1 /\ LeafHolds(Space, lastOp.item))

\* C10: the keys of every trie node are strictly ascending in the Component
\* total order.
C10_KeysStrictlyAscending == KeysAscending(root)

\* C11: every trie node other than the root is marked leaf or has at least
\* one child: no addItem or removeItem leaves an empty non-leaf node.
C11_NoEmptyNonLeafNode == NoEmptyNonLeaf(root)


\* C1: for every value v of the twelve Component kinds, idb.unQuote(idb.key(v))
\* returns a value of the same kind with an equal underlying value.
C1_UnQuoteOfKeyGivesBackValue ==
    pc = "unQuote" => (Kind(result) = Kind(arg1) /\ result.v = arg1.v)

\* the lexicographic order of Items over ComponentOrder
RECURSIVE ItemOrderFrom(_, _, _)
ItemOrderFrom(a, b, i) ==
    IF i > Len(a) \/ i > Len(b) THEN Sign(Len(a) - Len(b))
    ELSE IF ComponentOrder(a[i], b[i]) # 0 THEN ComponentOrder(a[i], b[i])
    ELSE ItemOrderFrom(a, b, i + 1)

ItemOrder(a, b) == ItemOrderFrom(a, b, 1)

\* C7: for Components a and b of different type rank, a.compareTo(b) and the
\* comparison inside _binarySearch return a number with the sign of
\* rank(a) - rank(b).
C7_DifferentRankComparesByRank ==
    (pc \in {"compareTo", "binarySearch"} /\ Rank(arg1) # Rank(arg2))
        => (~result.thrown /\ Sign(result.r) = Sign(Rank(arg1) - Rank(arg2)))

\* C8: for Components a and b of the same numeric, Date or byte-array rank,
\* the comparison has the sign of the numeric, chronological or byte-wise
\* comparison of the values, and is 0 only for equal values.
C8_SameRankComparesByValue ==
    (/\ pc \in {"compareTo", "binarySearch"}
     /\ Rank(arg1) = Rank(arg2)
     /\ Kind(arg1) \in {"Float", "Double", "Long", "Date", "Bytes", "ByteString"})
        => (~result.thrown /\ Sign(result.r) = ValueOrder(arg1, arg2))

\* C9: Item.compareTo orders Items lexicographically: the first position
\* where the components differ decides, by type rank and then by value, and
\* a proper prefix is smaller.
C9_ItemCompareToIsLexicographic ==
    pc = "Item.compareTo"
        => (~result.thrown /\ Sign(result.r) = ItemOrder(arg1, arg2))

\* C2: for every tree t, parsing the standard-mode text of t gives back an
\* equal tree: new JsonParser(t.toString()).parse().equals(t).
C2_StandardRoundTrip ==
    pc = "parse" => (result.ok /\ ElementEquals(result.e, arg1))

\* C3: for every tree t, parsing the extended-mode text of t with an
\* extended-mode parser gives back an equal tree.
C3_ExtendedRoundTrip ==
    pc = "parseExtended" => (result.ok /\ ElementEquals(result.e, arg1))

\* C12: for a tree t built purely by insert(isCompactTips, item...) calls,
\* unflattenFromList(isCompactTips, t.flattenToList()) equals t.
C12_UnflattenOfFlattenGivesBackTree ==
    (pc = "unflattenFromList" /\ ~arg2.failed)
        => (~result.thrown /\ ElementEquals(arg1, result.e))

\* C13: after insert(false, c1, ..., cn), following c1, ..., cn from the
\* node the insert was called on by successive get calls reaches the
\* terminus cn, below the children that already existed for a prefix.
C13_InsertDescendsToTerminus ==
    (pc = "insert" /\ ~arg2.isCompactTips /\ ~arg2.thrown)
        => LET item == arg2.item
               holder == Follow(arg1, item, 1, Len(item) - 1)
           IN  holder.kind \in {"Object", "List"} /\ HasKey(holder, KeyOf(item, Len(item)))

\* C14: insert(true, c1, ..., cn), n >= 2, into an empty Object stores cn as
\* a JsonValue directly under key c(n-1), inside a List when c(n-1) is an
\* Index; insert(false, c1, ..., cn) stores cn as a key mapped to null.
C14_CompactTipIsValueLeaf ==
    (/\ pc = "insert" /\ ~arg2.thrown
     /\ arg2.pre = JsonObject(<<>>) /\ Len(arg2.item) >= 2)
        => LET item == arg2.item
               n == Len(item)
               holder == Follow(arg1, item, 1, n - 2)
               last == Follow(arg1, item, 1, n - 1)
           IN  IF arg2.isCompactTips
                   THEN /\ ElementEquals(AsJsonValue(item[n]),
                                         ElementGet(holder, KeyOf(item, n - 1)))
                        /\ (KeyOf(item, n - 1).t = "IdbIndex" => holder.kind = "List")
               ELSE /\ HasKey(last, KeyOf(item, n))
                    /\ ElementGet(last, KeyOf(item, n)).kind = "null"

\* C15: for an ItemSpace s filled by addItem calls in which no stored Item
\* is a proper prefix of another, fromIdbObject(s.toIdbObject()) has the
\* same count() as s and stores exactly the same Items.
C15_FromIdbObjectOfToIdbObject ==
    (pc = "fromIdbObject" /\ NoProperPrefix(getItems(Space)))
        => /\ ~result.thrown
           /\ result.itemCount = itemCount
           /\ SameItems(getItems(Space), getItems(result))

\* C16: when a stored Item p is a proper prefix of a stored Item q,
\* toIdbObject() holds the nested-key path of p and, below it, the path of
\* the remaining components of q.
C16_PrefixItemKeepsSubtree ==
    pc = "toIdbObject"
        => LET stored == getItems(Space)
           IN  \A j, k \in 1..Len(stored) :
                   IsProperPrefix(stored[j], stored[k])
                       => /\ HasKeyPath(arg1, stored[j], 1)
                          /\ HasKeyPath(arg1, stored[k], 1)

\* C17: parse accepts every token list of the grammar value := object | list |
\* scalar, the empty object and the empty list included, at the top level or
\* nested, and returns an empty JsonObject or JsonList for them.
C17_ParseAcceptsGrammar ==
    (pc = "parse" /\ IsGrammarValue(arg2.jsonTokens)) =>
        /\ result.ok
        /\ NonWhite(arg1) = <<"{", "}">> => result.e = JsonObject(<<>>)
        /\ NonWhite(arg1) = <<"[", "]">> => result.e = JsonList(<<>>)

\* C18: when parse() returns a tree the cursor is at the end of the token list
\* and every character of the text that is not white space is in a token.
C18_ParseAccountsForWholeInput ==
    (pc = "parse" /\ result.ok) =>
        /\ result.pos = Len(arg2.jsonTokens)
        /\ NonWhite(ConcatAll(arg2.jsonTokens)) = NonWhite(arg1)

\* C19: parsing a text with a double-quoted string that has no closing quote
\* raises an error and gives no tree.
C19_UnterminatedStringIsError ==
    (pc = "parse" /\ EndsInsideString(arg1, 0, FALSE)) => ~result.ok

\* C20: no token has white space outside a double-quoted string, and white
\* space before the first token does not change the token list.
C20_TokensHaveNoWhiteSpace ==
    pc = "JsonParser" =>
        /\ \A k \in 1..Len(arg2.jsonTokens) :
               LET token == arg2.jsonTokens[k]
               IN  token[1] = Q \/ \A i \in 1..Len(token) : token[i] # " "
        /\ arg2.jsonTokens = tokenize(TrimLeft(arg1))

\* C21: in standard mode a bare number token read as a value, alone or as the
\* element of a list, gives a Value holding the Double of that number.
C21_BareNumberIsDouble ==
    (pc = "parse" /\ arg2.isUnderscoreQuoting) =>
        LET tokens == arg2.jsonTokens
        IN  /\ (Len(tokens) = 1 /\ IsBareNumber(tokens[1])) =>
                   (result.ok /\ result.e = JsonValue(BareNumberValue(tokens[1])))
            /\ (Len(tokens) = 3 /\ tokens[1] = <<"[">> /\ IsBareNumber(tokens[2])
                    /\ tokens[3] = <<"]">>) =>
                   (result.ok
                        /\ result.e = ListOf(<<JsonValue(BareNumberValue(tokens[2]))>>))

\* C22: for a string s, idb.key(s) is s when s does not start with '_' and
\* '_' followed by s when it does, and idb.unQuote(idb.key(s)) is the string s.
C22_StringKeyRoundTrip ==
    (arg1.t = "string" /\ pc \in {"key", "unQuote"}) =>
        /\ arg2 = (IF StartsWith(arg1.v, <<"_">>) THEN <<"_">> \o arg1.v ELSE arg1.v)
        /\ pc = "unQuote" => result = arg1

C22_Witness ==
    /\ pc = "unQuote"
    /\ arg1 = JsString(<<"_", "A">>)
    /\ arg2 = <<"_", "_", "A">>
    /\ result = JsString(<<"_", "A">>)

\* C23: unquoting a Bytes(...) or ByteString(...) token gives the bytes of the
\* body when the body is empty or upper-case hexadecimal pairs joined by single
\* underscores, and is an error for every other body, in JavaScript and Java.
C23_HexBodyDecodedOrRejected ==
    pc \in {"unQuote", "JavaUnQuote"} =>
        IF IsHexBody(arg1)
        THEN /\ result.t \in {"Bytes", "ByteString", "IdbByteArray", "IdbByteString"}
             /\ result.v = HexBodyBytes(arg1)
        ELSE result.t \in {"TypeError", "RuntimeException"}

C25_ThreadsDoNotInterfere ==
    \A t \in Threads : pc[t] = "done" => result[t] = Alone(arg1[t])

\* C26: over raw keys of one kind, has(k) is true exactly when the most recent
\* call on k was a set, get(k) then returns the value of that set and null
\* otherwise, delete(k) returns true exactly when k was present, and size() is
\* the number of present keys.
C26_MapFollowsMostRecentCall ==
    LET present == {k \in arg2.keys : arg2.last[k] # <<>>}
    IN  /\ arg2.op = "has" => result = JsBoolean(arg2.key \in present)
        /\ arg2.op = "get" =>
               result = (IF arg2.key \in present THEN arg2.last[arg2.key][1] ELSE JsNull)
        /\ arg2.op = "delete" => result = JsBoolean(arg2.was)
        /\ arg2.op = "size" => result = JsNumber(Cardinality(present))

\* C27: count() equals getItems().length and the number of nodes marked leaf.
C27_CountIsNumberOfLeaves ==
    /\ count(Space) = Len(getItems(Space))
    /\ count(Space) = LeafCount(root)

\* C28: a node is marked leaf if and only if its item is not null, and the
\* components of that item are the keys on the path from the root to the node.
C28_LeafHoldsItemOfItsPath == NodesHoldTheirPath(root, <<>>)

\* C29: getItems() returns every stored Item once and in ascending Item order:
\* a.compareTo(b) < 0 for each two consecutive results a then b.
C29_GetItemsAscending ==
    /\ ItemsAscending(getItems(Space))
    /\ \A j, k \in 1..Len(getItems(Space)) :
           j # k => getItems(Space)[j] # getItems(Space)[k]

\* C30: removeItem(i) of an Item i that is not stored leaves count(), every
\* node, every leaf flag and every stored item unchanged.
C30_RemoveOfAbsentItemChangesNothing ==
    (lastOp.kind = "remove" /\ ~IsStored(pre, lastOp.item))
        => (root = pre.root /\ itemCount = pre.itemCount)

====
